---- MODULE Spec2Model ----
(***************************************************************************)
(* The recipe importer of OurRecipes (src/recipe-app.jsx): the block       *)
(* splitter formatConverters.parseText, the block parser parseRecipeBlock  *)
(* and the JSON path formatConverters.parseJSON.                           *)
(*                                                                         *)
(* A JavaScript string is a sequence of one-character strings, so that the *)
(* regular expressions of the source act on characters, line breaks        *)
(* included.  A regular expression is a sequence of nodes, matched by a    *)
(* backtracking matcher with the priorities of the JavaScript engine       *)
(* (greedy before shorter, lazy before longer, alternatives left to        *)
(* right, leftmost start first).                                           *)
(***************************************************************************)
EXTENDS Integers, Sequences, FiniteSets, TLC

VARIABLES
  kind,      \* "text" | "json": which path of the importer the payload takes
  made,      \* how the text payload was put together: its sections and their delimiter
  text,      \* the raw text payload handed to parseText
  data,      \* the value JSON.parse returns for the JSON payload
  now,       \* Date.now(), the millisecond clock
  pc,        \* "idle" | "loop" | "done": position inside parseText / parseJSON
  filtered,  \* parseText: the blocks the split and the filter left
  blocks,    \* parseText: the blocks the for-loop has still to visit
  handed,    \* every block passed to parseRecipeBlock so far, in call order
  results,   \* what parseRecipeBlock returned for each of them, before Math.random() is added
  recipes,   \* the list the importer accumulates and returns
  outcome,   \* "none" | "returned" | "threw"
  reimported,\* what parseJSON returns for the JSON export of the list the importer returned
  query,     \* findSimilarRecipes: its arguments recipe, allRecipes, maxResults
  scored,    \* findSimilarRecipes: the list it returns
  simPc,     \* "off" | "called" | "returned": position of the call of findSimilarRecipes
  user,            \* AppWithAuth: the signed-in user, Null if none
  showAuthModal,   \* AppWithAuth: the login modal is shown
  recipesState,    \* FamilyRecipes: the state recipes, the list in memory
  store,           \* the Firestore collection 'recipes': document id -> data
  lastDocId,       \* the number of document ids Firestore has generated
  selectedRecipe,  \* FamilyRecipes: the recipe of the detail view, Null if closed
  isAddingNew,     \* FamilyRecipes: the form is open for a new recipe
  isEditing,       \* FamilyRecipes: the form is open for an update
  editingRecipeId, \* FamilyRecipes: the id of the recipe being edited, Null if none
  isManaging,      \* FamilyRecipes: the manage modal is open
  newRecipe,       \* FamilyRecipes: the fields of the form
  importStatus,    \* FamilyRecipes: the banner of the last import, Null if none
  showPasteModal,  \* FamilyRecipes: the paste modal is open
  pasteText,       \* FamilyRecipes: the text in the paste modal
  tasks,           \* the asynchronous calls in flight, each with what its closure captured
  events,          \* the number of clicks, inputs and sign-ins of the user so far
  \* the filters of FamilyRecipes
  searchQuery,     \* the text of the search box
  selectedCategory,\* the category chosen, 'All' for none
  activeTagFilters,\* the tags selected, per tag category
  \* useWakeLock and the screen wake locks of the browser
  wakeLock,        \* the state wakeLock of the hook: the number of a lock, 0 for null
  isActive,        \* the state isActive of the hook
  held,            \* the locks the page holds
  lastLockId,      \* the number of locks the browser has granted
  lockRequests,    \* the calls of navigator.wakeLock.request that are not settled yet
  effectLock,      \* the wakeLock the cleanup of the installed effect sees
  similarRecipes   \* the state similarRecipes of FamilyRecipes

importerVars == <<kind, made, text, data, now, pc, filtered, blocks, handed, results, recipes,
                  outcome, reimported>>
similarVars == <<query, scored, simPc>>
appVars == <<user, showAuthModal, recipesState, store, lastDocId, selectedRecipe, isAddingNew,
             isEditing, editingRecipeId, isManaging, newRecipe, importStatus, showPasteModal,
             pasteText, tasks>>
filterVars == <<searchQuery, selectedCategory, activeTagFilters>>
wakeVars == <<wakeLock, isActive, held, lastLockId, lockRequests, effectLock, similarRecipes>>
viewVars == <<filterVars, wakeVars>>
vars == <<importerVars, similarVars, appVars, events, viewVars>>

----------------------------------------------------------------------------
(* Characters and strings *)

NL == "\n"

\* \s of a JavaScript regular expression, and what String.prototype.trim strips
WS == {" ", "\n", "\t", "\r"}

AsciiUpperSeq == <<"A","B","C","D","E","F","G","H","I","J","K","L","M",
                   "N","O","P","Q","R","S","T","U","V","W","X","Y","Z">>
AsciiLowerSeq == <<"a","b","c","d","e","f","g","h","i","j","k","l","m",
                   "n","o","p","q","r","s","t","u","v","w","x","y","z">>
UpperSeq == AsciiUpperSeq \o <<"É">>
LowerSeq == AsciiLowerSeq \o <<"é">>

Range(f) == {f[i] : i \in DOMAIN f}

AZ == Range(AsciiUpperSeq)            \* [A-Z]
az == Range(AsciiLowerSeq)            \* [a-z]
Digits == {"0","1","2","3","4","5","6","7","8","9"}   \* \d

ToLowerMap == [c \in Range(UpperSeq) |->
                 LowerSeq[CHOOSE k \in 1..Len(UpperSeq) : UpperSeq[k] = c]]
ToUpperMap == [c \in Range(LowerSeq) |->
                 UpperSeq[CHOOSE k \in 1..Len(LowerSeq) : LowerSeq[k] = c]]

lc(c) == IF c \in DOMAIN ToLowerMap THEN ToLowerMap[c] ELSE c
uc(c) == IF c \in DOMAIN ToUpperMap THEN ToUpperMap[c] ELSE c

toLowerCase(s) == [i \in 1..Len(s) |-> lc(s[i])]
toUpperCase(s) == [i \in 1..Len(s) |-> uc(s[i])]

SetMin(S) == CHOOSE x \in S : \A y \in S : x <= y
SetMax(S) == CHOOSE x \in S : \A y \in S : x >= y

\* s.substring(b, e): the characters at offsets b .. e-1
substring(s, b, e) == SubSeq(s, b + 1, e)

trim(s) ==
  LET idx == {i \in 1..Len(s) : s[i] \notin WS}
  IN  IF idx = {} THEN <<>> ELSE SubSeq(s, SetMin(idx), SetMax(idx))

\* s.includes(w)
includes(s, w) ==
  \E p \in 0..(Len(s) - Len(w)) : \A k \in 1..Len(w) : s[p + k] = w[k]

RECURSIVE join(_, _)
join(parts, sep) ==
  IF parts = <<>> THEN <<>>
  ELSE IF Len(parts) = 1 THEN parts[1]
  ELSE parts[1] \o sep \o join(Tail(parts), sep)

\* s.split(c) for a separator that is one character of the set seps
RECURSIVE splitChars(_, _)
splitChars(s, seps) ==
  LET idx == {i \in 1..Len(s) : s[i] \in seps}
  IN  IF idx = {} THEN <<s>>
      ELSE LET i == SetMin(idx)
           IN  <<SubSeq(s, 1, i - 1)>> \o splitChars(SubSeq(s, i + 1, Len(s)), seps)

\* xs.map(x => x.trim())
trimEach(xs) == [i \in 1..Len(xs) |-> trim(xs[i])]

nonEmpty(s) == s # <<>>

----------------------------------------------------------------------------
(* Regular expressions: nodes *)

LitI(w)   == [k |-> "lit", w |-> w]       \* a literal under the i flag; w in lower case
Cls(S)    == [k |-> "cls", s |-> S, neg |-> FALSE]                \* [S]
\* [S]{min,max}, greedy; max = -1 is no upper limit
Rep(S, min, max)    == [k |-> "rep", s |-> S, neg |-> FALSE, min |-> min, max |-> max]
NotRep(S, min, max) == [k |-> "rep", s |-> S, neg |-> TRUE, min |-> min, max |-> max]
LazyAny   == [k |-> "lazy"]               \* [\s\S]*?
Alt(alts) == [k |-> "alt", alts |-> alts] \* (?:a|b|...), each a sequence of nodes
Plus(sub) == [k |-> "plus", sub |-> sub]  \* (...)+, greedy
Star(sub) == [k |-> "star", sub |-> sub]  \* (...)*, greedy
Ahead(sub) == [k |-> "ahead", sub |-> sub] \* (?=...)
Bot  == [k |-> "bot"]                     \* ^ without the m flag
Bol  == [k |-> "bol"]                     \* ^ under the m flag
Eot  == [k |-> "eot"]                     \* $ without the m flag
CapL == [k |-> "capl"]                    \* ( of capture group 1
CapR == [k |-> "capr"]                    \* ) of capture group 1

\* (?:w1|w2|...) for literals under the i flag
Words(ws) == Alt([i \in 1..Len(ws) |-> <<LitI(ws[i])>>])

(* Regular expressions: the matcher *)

NoMatch == [ok |-> FALSE, b |-> 0, e |-> 0, cs |-> 0, ce |-> 0]

InCls(c, n) == (c \in n.s) # n.neg

matchLit(s, p, w) ==
  /\ p + Len(w) <= Len(s)
  /\ \A k \in 1..Len(w) : lc(s[p + k]) = w[k]

\* how many characters from offset p on are in the class of node n, lim at most
\* (lim = -1: no limit)
runLen(s, p, n, lim) ==
  LET last == IF lim < 0 \/ p + lim > Len(s) THEN Len(s) ELSE p + lim
      \* the first offset from p on whose character is outside the class
      stop == CHOOSE q \in p..last :
                /\ q = last \/ ~InCls(s[q + 1], n)
                /\ \A j \in (p + 1)..q : InCls(s[j], n)
  IN  stop - p

RECURSIVE M(_, _, _, _, _)
RECURSIVE tryRep(_, _, _, _, _, _, _)
RECURSIVE tryLazy(_, _, _, _, _)
RECURSIVE tryAlt(_, _, _, _, _, _, _)

\* nodes matched from offset p of s on; cs, ce: capture group 1 so far
M(nodes, s, p, cs, ce) ==
  IF nodes = <<>> THEN [ok |-> TRUE, b |-> 0, e |-> p, cs |-> cs, ce |-> ce]
  ELSE
    LET n == Head(nodes)
        rest == Tail(nodes)
    IN  CASE n.k = "lit" ->
               IF matchLit(s, p, n.w) THEN M(rest, s, p + Len(n.w), cs, ce) ELSE NoMatch
          [] n.k = "cls" ->
               IF p < Len(s) /\ InCls(s[p + 1], n) THEN M(rest, s, p + 1, cs, ce) ELSE NoMatch
          [] n.k = "rep" ->
               tryRep(rest, s, p, runLen(s, p, n, n.max), n.min, cs, ce)
          [] n.k = "lazy" -> tryLazy(rest, s, p, cs, ce)
          [] n.k = "alt" -> tryAlt(n.alts, rest, s, p, cs, ce, 1)
          [] n.k = "plus" -> M(n.sub \o <<Star(n.sub)>> \o rest, s, p, cs, ce)
          [] n.k = "star" ->
               LET r == M(n.sub \o nodes, s, p, cs, ce)
               IN  IF r.ok THEN r ELSE M(rest, s, p, cs, ce)
          [] n.k = "ahead" ->
               IF M(n.sub, s, p, cs, ce).ok THEN M(rest, s, p, cs, ce) ELSE NoMatch
          [] n.k = "bot" -> IF p = 0 THEN M(rest, s, p, cs, ce) ELSE NoMatch
          [] n.k = "bol" ->
               IF p = 0 \/ s[p] = NL THEN M(rest, s, p, cs, ce) ELSE NoMatch
          [] n.k = "eot" -> IF p = Len(s) THEN M(rest, s, p, cs, ce) ELSE NoMatch
          [] n.k = "capl" -> M(rest, s, p, p, ce)
          [] n.k = "capr" -> M(rest, s, p, cs, p)

\* greedy: the longest repetition first, then one character less, down to min
tryRep(rest, s, p, n, min, cs, ce) ==
  LET oks == {i \in min..n : M(rest, s, p + i, cs, ce).ok}
  IN  IF oks = {} THEN NoMatch ELSE M(rest, s, p + SetMax(oks), cs, ce)

\* lazy: the shortest first, then one character more
tryLazy(rest, s, p, cs, ce) ==
  LET oks == {q \in p..Len(s) : M(rest, s, q, cs, ce).ok}
  IN  IF oks = {} THEN NoMatch ELSE M(rest, s, SetMin(oks), cs, ce)

tryAlt(alts, rest, s, p, cs, ce, i) ==
  IF i > Len(alts) THEN NoMatch
  ELSE LET r == M(alts[i] \o rest, s, p, cs, ce)
       IN  IF r.ok THEN r ELSE tryAlt(alts, rest, s, p, cs, ce, i + 1)

\* the match starting exactly at offset p
matchAt(re, s, p) == [M(re, s, p, 0, 0) EXCEPT !.b = p]

\* the match at the least of the offsets starts, none if there is no such offset
leftmost(re, s, starts) == IF starts = {} THEN NoMatch ELSE matchAt(re, s, SetMin(starts))

\* the leftmost match starting at offset from or later
search(re, s, from) == leftmost(re, s, {p \in from..Len(s) : M(re, s, p, 0, 0).ok})

\* s.match(re) for a regular expression without the g flag
match(re, s) == search(re, s, 0)

group0(s, m) == substring(s, m.b, m.e)      \* match[0]
group1(s, m) == substring(s, m.cs, m.ce)    \* match[1]

\* s.replace(re, repl) without the g flag: the first match only
splice(s, m, repl) ==
  IF m.ok THEN substring(s, 0, m.b) \o repl \o substring(s, m.e, Len(s)) ELSE s

replaceFirst(re, s, repl) == splice(s, match(re, s), repl)

\* s.replace(re, repl) under the g flag (no match of these expressions is empty)
RECURSIVE replaceAllFrom(_, _, _, _)
RECURSIVE replaceNext(_, _, _, _, _)
\* m: the next match from offset p on
replaceNext(re, s, repl, p, m) ==
  IF m.ok /\ m.e > m.b
    THEN substring(s, p, m.b) \o repl \o replaceAllFrom(re, s, repl, m.e)
    ELSE substring(s, p, Len(s))

replaceAllFrom(re, s, repl, p) == replaceNext(re, s, repl, p, search(re, s, p))

replaceAll(re, s, repl) == replaceAllFrom(re, s, repl, 0)

\* s.split(re): the pieces between the successive matches (none of them empty)
RECURSIVE splitFrom(_, _, _)
RECURSIVE splitNext(_, _, _, _)
\* m: the next match from offset p on
splitNext(re, s, p, m) ==
  IF m.ok /\ m.e > m.b /\ m.b < Len(s)
    THEN <<substring(s, p, m.b)>> \o splitFrom(re, s, m.e)
    ELSE <<substring(s, p, Len(s))>>

splitFrom(re, s, p) == splitNext(re, s, p, search(re, s, p))

split(re, s) == splitFrom(re, s, 0)

----------------------------------------------------------------------------
(* The literals of the regular expressions, in lower case (all are used under the i flag) *)
W ==
  [ category |-> <<"c","a","t","e","g","o","r","y">>
  , breakfast |-> <<"b","r","e","a","k","f","a","s","t">>
  , brekkie |-> <<"b","r","e","k","k","i","e">>
  , dessert |-> <<"d","e","s","s","e","r","t">>
  , sweet |-> <<"s","w","e","e","t">>
  , cake |-> <<"c","a","k","e">>
  , cookie |-> <<"c","o","o","k","i","e">>
  , soup |-> <<"s","o","u","p">>
  , stew |-> <<"s","t","e","w">>
  , broth |-> <<"b","r","o","t","h">>
  , salad |-> <<"s","a","l","a","d">>
  , snack |-> <<"s","n","a","c","k">>
  , appetizer |-> <<"a","p","p","e","t","i","z","e","r">>
  , starter |-> <<"s","t","a","r","t","e","r">>
  , drink |-> <<"d","r","i","n","k">>
  , beverage |-> <<"b","e","v","e","r","a","g","e">>
  , smoothie |-> <<"s","m","o","o","t","h","i","e">>
  , serve |-> <<"s","e","r","v","e">>
  , serving |-> <<"s","e","r","v","i","n","g">>
  , make |-> <<"m","a","k","e">>
  , yield |-> <<"y","i","e","l","d">>
  , for |-> <<"f","o","r">>
  , feed |-> <<"f","e","e","d">>
  , people |-> <<"p","e","o","p","l","e">>
  , person |-> <<"p","e","r","s","o","n">>
  , ingredient |-> <<"i","n","g","r","e","d","i","e","n","t">>
  , instruction |-> <<"i","n","s","t","r","u","c","t","i","o","n">>
  , direction |-> <<"d","i","r","e","c","t","i","o","n">>
  , step |-> <<"s","t","e","p">>
  , method |-> <<"m","e","t","h","o","d">>
  , preparation |-> <<"p","r","e","p","a","r","a","t","i","o","n">>
  , note |-> <<"n","o","t","e">>
  , tip |-> <<"t","i","p">>
  , chef |-> <<"c","h","e","f">>
  , type |-> <<"t","y","p","e">>
  , region |-> <<"r","e","g","i","o","n">>
  , meal |-> <<"m","e","a","l">>
  , source |-> <<"s","o","u","r","c","e">>
  , topping |-> <<"t","o","p","p","i","n","g">>
  , will |-> <<" ","w","i","l","l">>   \* " will"
  , need |-> <<" ","n","e","e","d">>   \* " need"
  , ll |-> <<"'","l","l">>   \* "'ll"
  , you |-> <<"y","o","u">>
  , what_you_need |-> <<"w","h","a","t"," ","y","o","u"," ","n","e","e","d">>   \* "what you need"
  , how_to_make |-> <<"h","o","w"," ","t","o"," ","m","a","k","e">>   \* "how to make"
  , to_prepare |-> <<"t","o"," ","p","r","e","p","a","r","e">>   \* "to prepare"
  , what_to_do |-> <<"w","h","a","t"," ","t","o"," ","d","o">>   \* "what to do"
  , for_the |-> <<"f","o","r"," ","t","h","e">>   \* "for the"
  , space_note |-> <<" ","n","o","t","e">>   \* " note"
  , instructions |-> <<"i","n","s","t","r","u","c","t","i","o","n","s">>
  , serves |-> <<"s","e","r","v","e","s">>
  ]

(* String constants of the source *)
\* the category names of the source
Category ==
  [ Main |-> <<"M","a","i","n">>
  , Breakfast |-> <<"B","r","e","a","k","f","a","s","t">>
  , Dessert |-> <<"D","e","s","s","e","r","t">>
  , Soup |-> <<"S","o","u","p">>
  , Salad |-> <<"S","a","l","a","d">>
  , Snack |-> <<"S","n","a","c","k">>
  , Drink |-> <<"D","r","i","n","k">>
  ]
NoInstructionsProvided == <<"N","o"," ","i","n","s","t","r","u","c","t","i","o","n","s"," ","p","r","o","v","i","d","e","d">>   \* 'No instructions provided'
UntitledRecipe == <<"U","n","t","i","t","l","e","d"," ","R","e","c","i","p","e">>   \* 'Untitled Recipe'

(* TAG_CATEGORIES[cat].options, in the order of the source *)
TAG_CATEGORIES ==
  [ type |-> <<
      <<"s","p","i","c","y">>,   \* 'spicy'
      <<"c","o","m","f","o","r","t">>,   \* 'comfort'
      <<"q","u","i","c","k">>,   \* 'quick'
      <<"f","e","w"," ","i","n","g","r","e","d","i","e","n","t","s">>,   \* 'few ingredients'
      <<"o","v","e","r","n","i","g","h","t">>,   \* 'overnight'
      <<"s","a","l","a","d">>,   \* 'salad'
      <<"s","l","o","w","-","c","o","o","k","i","n","g">>,   \* 'slow-cooking'
      <<"o","v","e","n">>,   \* 'oven'
      <<"b","a","r","b","e","c","u","e">>,   \* 'barbecue'
      <<"b","i","g"," ","c","r","o","w","d">>   \* 'big crowd'
    >>
  , region |-> <<
      <<"A","s","i","a">>,   \* 'Asia'
      <<"F","r","a","n","c","e">>,   \* 'France'
      <<"L","a","t","i","n"," ","A","m","e","r","i","c","a">>,   \* 'Latin America'
      <<"N","o","r","t","h"," ","A","m","e","r","i","c","a">>,   \* 'North America'
      <<"I","t","a","l","y">>,   \* 'Italy'
      <<"M","i","d","d","l","e"," ","E","a","s","t">>,   \* 'Middle East'
      <<"O","t","h","e","r">>   \* 'Other'
    >>
  , meal |-> <<
      <<"b","r","e","k","k","i","e">>,   \* 'brekkie'
      <<"l","u","n","c","h","/","d","i","n","n","e","r">>,   \* 'lunch/dinner'
      <<"s","n","a","c","k">>,   \* 'snack'
      <<"d","e","s","s","e","r","t">>   \* 'dessert'
    >>
  , source |-> <<
      <<"O","t","t","o","l","e","n","g","h","i">>,   \* 'Ottolenghi'
      <<"J","a","m","i","e"," ","O","l","i","v","e","r">>,   \* 'Jamie Oliver'
      <<"f","a","m","i","l","y">>,   \* 'family'
      <<"O","t","h","e","r">>   \* 'Other'
    >>
  ]


\* The characters outside Latin-1, each named by its code point
Glyph ==
  [ bullets   |-> {"U+2022", "U+25E6", "U+25CB", "U+25AA", "U+25AB", "U+25CF"}  \* the six bullets
  , arrows    |-> {"U+27A4", "U+27A2", "U+25B8", "U+25BA", "U+25B9"}            \* the five arrows
  , doubleBar |-> "U+2550"                                                      \* box-drawing double horizontal
  , bulb      |-> "U+1F4A1"                                                     \* the light-bulb emoji
  ]

MIN_BLOCK_LENGTH == 30        \* b.length > 30
MIN_LINES == 3                \* lines.length < 3
TITLE_SCAN_LINES == 5         \* Math.min(5, lines.length)
TITLE_MIN == 3                \* cleaned.length >= 3
TITLE_MAX == 100              \* cleaned.length <= 100
INGREDIENT_MAX == 200         \* line.length < 200

Null == [null |-> TRUE]       \* what parseRecipeBlock returns for a rejected block

----------------------------------------------------------------------------
(* parseRecipeBlock: the regular expressions *)

OptS == Rep({"s", "S"}, 0, 1)        \* s? under the i flag
ColonWs == {":"} \cup WS             \* [:\s]
HeaderEnd == {":", "|", NL}          \* [:|\n]
Dot == {NL, "\r"}                    \* what . does not match

\* the alternatives of the section headers
Headers ==
  [ \* instructions?|directions?|steps?|method|preparation
    instr |-> << <<LitI(W.instruction), OptS>>, <<LitI(W.direction), OptS>>,
                 <<LitI(W.step), OptS>>, <<LitI(W.method)>>, <<LitI(W.preparation)>> >>
  , \* notes?|tips?
    note |-> << <<LitI(W.note), OptS>>, <<LitI(W.tip), OptS>> >>
  , \* serves?|makes?
    serve |-> << <<LitI(W.serve), OptS>>, <<LitI(W.make), OptS>> >>
  , \* chef'?s? notes?
    chef |-> <<LitI(W.chef), Rep({"'"}, 0, 1), OptS, LitI(W.space_note), OptS>>
  , \* you(?:'ll| will) need
    youNeed |-> <<LitI(W.you), Alt(<< <<LitI(W.ll)>>, <<LitI(W.will)>> >>), LitI(W.need)>>
  ]

\* ([\s\S]*?)(?=\n\s*(?:hs)\s*[:|\n]|$)
untilHeader(hs) ==
  <<CapL, LazyAny, CapR,
    Ahead(<<Alt(<< <<Cls({NL}), Rep(WS, 0, -1), Alt(hs), Rep(WS, 0, -1), Cls(HeaderEnd)>>,
                   <<Eot>> >>)>>)>>

\* the clean-up of a title line
TitleRe ==
  [ lead      |-> <<Bot, Rep({"=", "#", "*", "-", Glyph.doubleBar} \cup WS, 1, -1)>>  \* /^[=#*\-\s═]+/
  , trail     |-> <<Rep({"=", "#", "*", "-", Glyph.doubleBar}, 1, -1), Eot>>          \* /[=#*\-═]+$/
  , bold      |-> <<Cls({"*"}), Cls({"*"})>>                                          \* /\*\*/g
  , underline |-> <<Cls({"_"}), Cls({"_"})>>                                          \* /__/g
  ]

\* categoryPatterns
categoryPatterns ==
  << [pattern |-> <<LitI(W.category), Rep(ColonWs, 1, -1),
                    CapL, Rep(AZ \cup az \cup WS, 1, -1), CapR>>,
      direct |-> TRUE, category |-> <<>>],
     [pattern |-> <<Words(<<W.breakfast, W.brekkie>>)>>,
      direct |-> FALSE, category |-> Category.Breakfast],
     [pattern |-> <<Words(<<W.dessert, W.sweet, W.cake, W.cookie>>)>>,
      direct |-> FALSE, category |-> Category.Dessert],
     [pattern |-> <<Words(<<W.soup, W.stew, W.broth>>)>>,
      direct |-> FALSE, category |-> Category.Soup],
     [pattern |-> <<Words(<<W.salad>>)>>, direct |-> FALSE, category |-> Category.Salad],
     [pattern |-> <<Words(<<W.snack, W.appetizer, W.starter>>)>>,
      direct |-> FALSE, category |-> Category.Snack],
     [pattern |-> <<Words(<<W.drink, W.beverage, W.smoothie>>)>>,
      direct |-> FALSE, category |-> Category.Drink] >>

\* servingsPatterns
servingsPatterns ==
  << <<Alt(<< <<LitI(W.serve), OptS>>, <<LitI(W.serving), OptS>>,
              <<LitI(W.make), OptS>>, <<LitI(W.yield), OptS>> >>),
       Rep(ColonWs, 1, -1), CapL, NotRep({NL}, 1, -1), CapR>>,
     <<Alt(<< <<LitI(W.for)>>, <<LitI(W.feed), OptS>> >>),
       Rep(ColonWs, 1, -1),
       CapL, Rep(Digits, 1, -1), Rep(WS, 0, -1),
       Alt(<< <<LitI(W.people)>>, <<LitI(W.person), OptS>>, <<LitI(W.serving), OptS>> >>),
       CapR>> >>

\* new RegExp(`${tagCat}[:\\s]+([^\n]+)`, 'i')
tagRe(tagCat) ==
  <<LitI(W[tagCat]), Rep(ColonWs, 1, -1), CapL, NotRep({NL}, 1, -1), CapR>>

\* the ingredients section
IngredientRe ==
  [ \* /ingredients?[:\s]*\n+([\s\S]*?)(?=\n\s*(?:instr|note|serve headers)\s*[:|\n]|$)/i
    header |->
      <<LitI(W.ingredient), OptS, Rep(ColonWs, 0, -1), Rep({NL}, 1, -1)>>
        \o untilHeader(Headers.instr \o Headers.note \o Headers.serve)
  , \* /you(?:'ll| will) need[:\s]*\n+([\s\S]*?)(?=\n\s*(?:instr|note headers)\s*[:|\n]|$)/i
    youllNeed |->
      Headers.youNeed \o <<Rep(ColonWs, 0, -1), Rep({NL}, 1, -1)>>
        \o untilHeader(Headers.instr \o Headers.note)
  , \* /what you need[:\s]*\n+([\s\S]*?)(?=\n\s*(?:instr|note headers)\s*[:|\n]|$)/i
    whatYouNeed |->
      <<LitI(W.what_you_need), Rep(ColonWs, 0, -1), Rep({NL}, 1, -1)>>
        \o untilHeader(Headers.instr \o Headers.note)
  , \* /((?:^|\n)[\s\-•*◦○▪▫●➤➢▸►▹][\s]*[^\n]+)+(?=\n\s*(?:instr headers)\s*[:|\n])/im
    list |->
      <<Plus(<<Alt(<< <<Bol>>, <<Cls({NL})>> >>),
               Cls(WS \cup {"-", "*"} \cup Glyph.bullets \cup Glyph.arrows),
               Rep(WS, 0, -1), NotRep({NL}, 1, -1)>>),
        Ahead(<<Cls({NL}), Rep(WS, 0, -1), Alt(Headers.instr), Rep(WS, 0, -1),
                Cls(HeaderEnd)>>)>>
  , \* /^[\s\-•*◦○▪▫●➤➢▸►▹\d.)\]]+/
    mark |->
      <<Bot, Rep(WS \cup {"-", "*"} \cup Glyph.bullets \cup Glyph.arrows \cup Digits
                   \cup {".", ")", "]"}, 1, -1)>>
  , \* /^[\d]+\s*[\/.\s]*[\d]*/
    quantity |->
      <<Bot, Rep(Digits, 1, -1), Rep(WS, 0, -1), Rep({"/", "."} \cup WS, 0, -1),
        Rep(Digits, 0, -1)>>
  , \* /^(ingredients?|you('ll| will) need|for the|topping|what you need)[:]*$/
    restated |->
      <<Bot,
        Alt(<< <<LitI(W.ingredient), OptS>>, Headers.youNeed, <<LitI(W.for_the)>>,
               <<LitI(W.topping)>>, <<LitI(W.what_you_need)>> >>),
        Rep({":"}, 0, -1), Eot>>
  ]

\* instrPatterns
instrPatterns ==
  << <<Alt(Headers.instr), Rep(ColonWs, 0, -1), Rep({NL}, 1, -1)>>
       \o untilHeader(Headers.note \o <<Headers.chef>> \o Headers.serve),
     <<Alt(<< <<LitI(W.how_to_make)>>, <<LitI(W.to_prepare)>>, <<LitI(W.what_to_do)>> >>),
       Rep(ColonWs, 0, -1), Rep({NL}, 1, -1)>>
       \o untilHeader(Headers.note \o Headers.serve) >>

\* the clean-up of the instructions and the remaining-text fallback
InstrRe ==
  [ newlines         |-> <<Rep({NL}, 1, -1)>>                                   \* /\n+/
  , spaces           |-> <<Rep(WS, 1, -1)>>                                     \* /\s+/g
  , leadingStep      |-> <<Bot, Rep(Digits, 1, -1), Cls({".", ")"}), Rep(WS, 0, -1)>>  \* /^\d+[\.\)]\s*/g
  , afterIngredients |-> <<LitI(W.ingredient), OptS, Rep(ColonWs, 0, -1), Cls({NL})>>  \* /ingredients?[:\s]*\n/i
  , stillBullet      |-> <<Bot, Cls(WS \cup {"-", "*"} \cup Glyph.bullets)>>    \* /^[\s\-•*◦○▪▫●]/
  ]

\* notesPatterns
notesPatterns ==
  << <<Alt(Headers.note \o <<Headers.chef>>), Rep(ColonWs, 0, -1),
       CapL, NotRep(Dot, 1, -1), CapR>>,
     <<Cls({Glyph.bulb}), Rep(WS, 0, -1), CapL, NotRep(Dot, 1, -1), CapR>> >>

----------------------------------------------------------------------------
(* parseRecipeBlock *)

\* the least member of a set of indexes, 0 if there is none
firstOf(hits) == IF hits = {} THEN 0 ELSE SetMin(hits)

\* the index of the first pattern of the list that matches s, 0 if none does
firstMatching(patterns, s) == firstOf({i \in 1..Len(patterns) : match(patterns[i], s).ok})

\* match[1].trim() of the i-th pattern of the list; '' if i is 0
firstGroup(patterns, s, i) ==
  IF i = 0 THEN <<>> ELSE trim(group1(s, match(patterns[i], s)))

\* words.map(w => w.charAt(0) + w.slice(1).toLowerCase())
titleCase(words) ==
  [i \in 1..Len(words) |->
     IF words[i] = <<>> THEN <<>> ELSE <<words[i][1]>> \o toLowerCase(Tail(words[i]))]

cleanTitle(line) ==
  join(titleCase(
              splitChars(toUpperCase(trim(
                replaceAll(TitleRe.underline,
                  replaceAll(TitleRe.bold,
                    replaceFirst(TitleRe.trail,
                      replaceFirst(TitleRe.lead, line, <<>>), <<>>), <<>>), <<>>))), {" "})),
       <<" ">>)

acceptsTitle(cleaned) ==
  /\ Len(cleaned) >= TITLE_MIN
  /\ Len(cleaned) <= TITLE_MAX
  /\ ~includes(toLowerCase(cleaned), W.ingredient)
  /\ ~includes(toLowerCase(cleaned), W.instructions)
  /\ ~includes(toLowerCase(cleaned), W.serves)

\* the lines of the block, trimmed, the empty ones dropped
blockLines(block) == SelectSeq(trimEach(splitChars(block, {NL})), nonEmpty)

titleAt(lines, i) == IF i = 0 THEN <<>> ELSE cleanTitle(lines[i])

\* a faulty title loop: every line of the block is examined
extractTitleAnyLine(lines) ==
  titleAt(lines, firstOf({i \in 1..Len(lines) : acceptsTitle(cleanTitle(lines[i]))}))

\* the title loop: the first of the first five lines whose cleaned form is accepted
extractTitle(lines) ==
  titleAt(lines,
          firstOf({i \in 1..(IF Len(lines) < TITLE_SCAN_LINES THEN Len(lines)
                             ELSE TITLE_SCAN_LINES) :
                     acceptsTitle(cleanTitle(lines[i]))}))

\* the category of the i-th pattern of categoryPatterns; 'Main' if i is 0
categoryAt(block, i) ==
  IF i = 0 THEN Category.Main
  ELSE IF categoryPatterns[i].direct
         THEN trim(group1(block, match(categoryPatterns[i].pattern, block)))
         ELSE categoryPatterns[i].category

\* a faulty detection: only the explicit marker, no keyword of the block
detectCategoryExplicitOnly(block) ==
  categoryAt(block, firstMatching(<<categoryPatterns[1].pattern>>, block))

\* a faulty order: the keywords are tried before the explicit marker
detectCategoryKeywordsFirst(block) ==
  IF firstMatching([j \in 1..(Len(categoryPatterns) - 1) |-> categoryPatterns[j + 1].pattern],
                   block) # 0
    THEN categoryAt(block,
                    1 + firstMatching([j \in 1..(Len(categoryPatterns) - 1) |->
                                         categoryPatterns[j + 1].pattern], block))
    ELSE categoryAt(block, firstMatching(<<categoryPatterns[1].pattern>>, block))

detectCategory(block) ==
  categoryAt(block,
             firstMatching([j \in 1..Len(categoryPatterns) |-> categoryPatterns[j].pattern],
                           block))

extractServings(block) == firstGroup(servingsPatterns, block, firstMatching(servingsPatterns, block))

\* pieces.map(t => t.trim().toLowerCase())
lowerTrim(pieces) == [i \in 1..Len(pieces) |-> toLowerCase(trim(pieces[i]))]

\* the options named on the explicit line of the category, lower-cased; m: the match of the line
explicitTags(block, options, m) ==
  LET isOption(t) == \E k \in 1..Len(options) : toLowerCase(options[k]) = t
  IN  IF m.ok
        THEN SelectSeq(lowerTrim(splitChars(group1(block, m), {",", "|"})), isOption)
        ELSE <<>>

\* the options whose lower-cased form occurs anywhere in the block
scanTags(block, options) ==
  LET inBlock(option) == includes(toLowerCase(block), toLowerCase(option))
  IN  SelectSeq(options, inBlock)

\* if (recipe.tags[tagCat].length === 0): the whole-block scan
explicitOrScan(block, options, explicit) ==
  IF Len(explicit) = 0 THEN scanTags(block, options) ELSE explicit

\* the tags of one category: the explicit line first, the whole-block scan if it gave nothing
extractTags(block, tagCat) ==
  explicitOrScan(block, TAG_CATEGORIES[tagCat],
                 explicitTags(block, TAG_CATEGORIES[tagCat], match(tagRe(tagCat), block)))

\* ingMatch[1] of the first header form that matches, listMatch[0] if none does
spanOf(block, m1, m2, m3, listMatch) ==
  IF m1.ok THEN [ok |-> TRUE, span |-> group1(block, m1)]
  ELSE IF m2.ok THEN [ok |-> TRUE, span |-> group1(block, m2)]
  ELSE IF m3.ok THEN [ok |-> TRUE, span |-> group1(block, m3)]
  ELSE IF listMatch.ok THEN [ok |-> TRUE, span |-> group0(block, listMatch)]
  ELSE [ok |-> FALSE, span |-> <<>>]

\* the raw ingredients span, or no match
ingredientsSpan(block) ==
  spanOf(block, match(IngredientRe.header, block), match(IngredientRe.youllNeed, block),
         match(IngredientRe.whatYouNeed, block), match(IngredientRe.list, block))

\* lines.map(line => line.replace(...).replace(...).trim())
cleanIngredients(lines) ==
  [i \in 1..Len(lines) |->
     trim(replaceFirst(IngredientRe.quantity,
                       replaceFirst(IngredientRe.mark, lines[i], <<>>), <<>>))]

keepsIngredient(line) ==
  /\ Len(line) > 1
  /\ Len(line) < INGREDIENT_MAX
  /\ ~match(IngredientRe.restated, toLowerCase(line)).ok

\* the lines of the span, cleaned and filtered
ingredientLines(ingMatch) ==
  IF ingMatch.ok
    THEN SelectSeq(cleanIngredients(splitChars(ingMatch.span, {NL})), keepsIngredient)
    ELSE <<>>

extractIngredients(block) == ingredientLines(ingredientsSpan(block))

\* lines joined, white space collapsed, the leading step number dropped
joinSteps(captured) ==
  trim(replaceAll(InstrRe.leadingStep,
         replaceAll(InstrRe.spaces,
           join(SelectSeq(trimEach(split(InstrRe.newlines, captured)), nonEmpty), <<" ">>),
           <<" ">>),
         <<>>))

\* the instructions under the header of the i-th pattern of instrPatterns; '' if i is 0
instructionsAt(block, i) ==
  IF i = 0 THEN <<>> ELSE joinSteps(group1(block, match(instrPatterns[i], block)))

headerInstructions(block) == instructionsAt(block, firstMatching(instrPatterns, block))

\* the fallback: the lines after the ingredients header that are not bullets
joinRemaining(afterIngredients, instrLines) ==
  IF afterIngredients # <<>> /\ Len(instrLines) > 0
    THEN trim(replaceAll(InstrRe.spaces, join(instrLines, <<" ">>), <<" ">>))
    ELSE <<>>

remainingLines(afterIngredients) ==
  LET notBullet(line) == ~match(InstrRe.stillBullet, trim(line)).ok /\ Len(trim(line)) > 0
  IN  joinRemaining(afterIngredients,
                    trimEach(SelectSeq(splitChars(afterIngredients, {NL}), notBullet)))

\* block.split(...)[1] || ''
secondPiece(pieces) == IF Len(pieces) >= 2 THEN pieces[2] ELSE <<>>

remainingText(block) == remainingLines(secondPiece(split(InstrRe.afterIngredients, block)))

\* if (!recipe.instructions && recipe.ingredients.length > 0): the fallback
orRemaining(block, ingredients, instructions) ==
  IF instructions = <<>> /\ Len(ingredients) > 0 THEN remainingText(block) ELSE instructions

extractInstructions(block, ingredients) ==
  orRemaining(block, ingredients, headerInstructions(block))

extractNotes(block) == firstGroup(notesPatterns, block, firstMatching(notesPatterns, block))

\* a faulty default: empty instructions are left empty
orSentinelMissing(instructions) == instructions

\* recipe.instructions || 'No instructions provided'
orSentinel(instructions) ==
  IF instructions = <<>> THEN NoInstructionsProvided ELSE instructions

\* a faulty validation: the ingredient list is not looked at
validatedByTitle(block, id, lines, title, ingredients) ==
  IF Len(lines) < MIN_LINES THEN Null
  ELSE IF title # <<>>
    THEN [id |-> id,
          title |-> title,
          category |-> detectCategory(block),
          servings |-> extractServings(block),
          ingredients |-> ingredients,
          instructions |-> orSentinel(extractInstructions(block, ingredients)),
          notes |-> extractNotes(block),
          tags |-> [tagCat \in DOMAIN TAG_CATEGORIES |-> extractTags(block, tagCat)]]
    ELSE Null

\* the validation: the record if it has a title and an ingredient, null if not
validated(block, id, lines, title, ingredients) ==
  IF Len(lines) < MIN_LINES THEN Null
  ELSE IF title # <<>> /\ Len(ingredients) > 0
    THEN [id |-> id,
          title |-> title,
          category |-> detectCategory(block),
          servings |-> extractServings(block),
          ingredients |-> ingredients,
          instructions |-> orSentinel(extractInstructions(block, ingredients)),
          notes |-> extractNotes(block),
          tags |-> [tagCat \in DOMAIN TAG_CATEGORIES |-> extractTags(block, tagCat)]]
    ELSE Null

parseLines(block, id, lines) ==
  validated(block, id, lines, extractTitle(lines), extractIngredients(block))

parseRecipeBlock(block, id) == parseLines(block, id, blockLines(block))

----------------------------------------------------------------------------
(* formatConverters.parseText: the block splitter *)

\* the regular expressions of parseText
SplitRe ==
  [ crlf       |-> <<Cls({"\r"}), Cls({NL})>>                     \* /\r\n/g
  , cr         |-> <<Cls({"\r"})>>                                \* /\r/g
  , manyNl     |-> <<Rep({NL}, 4, -1)>>                           \* /\n{4,}/g
  , \* /\n\s*[=\-*]{5,}\s*\n/
    separator  |-> <<Cls({NL}), Rep(WS, 0, -1), Rep({"=", "-", "*"}, 5, -1),
                     Rep(WS, 0, -1), Cls({NL})>>
  , \* /\n\n+(?=[A-Z][A-Za-z\s]{3,50}(?:\n|$))/
    titleBreak |-> <<Cls({NL}), Rep({NL}, 1, -1),
                     Ahead(<<Cls(AZ), Rep(AZ \cup az \cup WS, 3, 50),
                             Alt(<< <<Cls({NL})>>, <<Eot>> >>)>>)>>
  , \* /(?:^|\n)#{1,3}\s+/
    mdHeader   |-> <<Alt(<< <<Bot>>, <<Cls({NL})>> >>), Rep({"#"}, 1, 3), Rep(WS, 1, -1)>>
  ]

normalize(raw) ==
  replaceAll(SplitRe.manyNl, replaceAll(SplitRe.cr, replaceAll(SplitRe.crlf, raw, <<NL>>), <<NL>>), <<NL, NL, NL>>)

\* a faulty filter: only the empty blocks are dropped
notEmptyBlock(b) == Len(b) > 0

longEnough(b) == Len(b) > MIN_BLOCK_LENGTH

\* the blocks parseText hands to its for-loop
\* if (blocks.length === 1): the next, weaker way of splitting
\* a faulty fallback: the heading rule replaces the blocks of an earlier rule
byHeaderAlways(t, found) ==
  IF Len(split(SplitRe.mdHeader, t)) > 1 THEN split(SplitRe.mdHeader, t) ELSE found
byHeader(t, found) == IF Len(found) = 1 THEN split(SplitRe.mdHeader, t) ELSE found
byTitle(t, found) == byHeader(t, IF Len(found) = 1 THEN split(SplitRe.titleBreak, t) ELSE found)
bySeparator(t) == byTitle(t, split(SplitRe.separator, t))

splitBlocks(raw) == SelectSeq(trimEach(bySeparator(normalize(raw))), longEnough)

----------------------------------------------------------------------------
(* formatConverters.parseJSON *)

\* JavaScript values as JSON.parse returns them
Undefined   == [t |-> "undefined", v |-> <<>>]     \* a missing field
JsNull      == [t |-> "null", v |-> <<>>]
Str(s)      == [t |-> "string", v |-> s]
Arr(xs)     == [t |-> "array", v |-> xs]
Obj(o)      == [t |-> "object", v |-> o]
SyntaxError == [t |-> "invalid", v |-> <<>>]       \* the payload is no JSON: JSON.parse throws

truthy(x) == x.t \in {"array", "object"} \/ (x.t = "string" /\ x.v # <<>>)
orElse(x, default) == IF truthy(x) THEN x.v ELSE default          \* x || default

EmptyTags == [type |-> <<>>, region |-> <<>>, meal |-> <<>>, source |-> <<>>]

\* a faulty callback: the pieces of an ingredients string are not trimmed
jsonRecordUntrimmed(r, id) ==
  [id |-> id,
   title |-> orElse(r.title, UntitledRecipe),
   category |-> orElse(r.category, Category.Main),
   servings |-> orElse(r.servings, <<>>),
   ingredients |-> IF r.ingredients.t = "array" THEN r.ingredients.v
                   ELSE splitChars(orElse(r.ingredients, <<>>), {","}),
   instructions |-> orElse(r.instructions, <<>>),
   notes |-> orElse(r.notes, <<>>),
   tags |-> orElse(r.tags, EmptyTags)]

\* the record the map callback builds from one element r of the array
jsonRecord(r, id) ==
  [id |-> id,
   title |-> orElse(r.title, UntitledRecipe),
   category |-> orElse(r.category, Category.Main),
   servings |-> orElse(r.servings, <<>>),
   ingredients |-> IF r.ingredients.t = "array" THEN r.ingredients.v
                   ELSE trimEach(splitChars(orElse(r.ingredients, <<>>), {","})),
   instructions |-> orElse(r.instructions, <<>>),
   notes |-> orElse(r.notes, <<>>),
   tags |-> orElse(r.tags, EmptyTags)]

\* Array.isArray(data) ? data : [data]
asArray(d) == IF d.t = "array" THEN d.v ELSE <<d>>

\* JSON.parse throws on a malformed payload; r.title throws on a null element
parseJSONThrows(d) ==
  d.t = "invalid" \/ \E i \in 1..Len(asArray(d)) : asArray(d)[i].t = "null"

parseJSON(d, ids) == [i \in 1..Len(asArray(d)) |-> jsonRecord(asArray(d)[i].v, ids[i])]

\* JSON.stringify of one recipe, as the value JSON.parse reads back from the text: every
\* field of the record is written, a string as a string (the empty one included), a list
\* as an array, the tags as an object
stringify(recipe) ==
  Obj([title |-> Str(recipe.title),
       category |-> Str(recipe.category),
       servings |-> Str(recipe.servings),
       ingredients |-> Arr(recipe.ingredients),
       instructions |-> Str(recipe.instructions),
       notes |-> Str(recipe.notes),
       tags |-> Obj(recipe.tags)])

\* formatConverters.toJSON: JSON.stringify(recipes, null, 2)
toJSON(list) == Arr([i \in 1..Len(list) |-> stringify(list[i])])

----------------------------------------------------------------------------
(* The payloads: recipe sections, each one text a user may paste or import *)
Section ==
  [ \* well formed (58 characters)
    \*   Rice Bowl
    \*   Ingredients:
    \*   - rice
    \*   - oil
    \*   Instructions:
    \*   Boil it.
    RiceBowl |->
      <<"R","i","c","e"," ","B","o","w","l","\n","I","n","g","r","e","d","i","e","n","t","s",":",
        "\n","-"," ","r","i","c","e","\n","-"," ","o","i","l","\n","I","n","s","t","r","u","c",
        "t","i","o","n","s",":","\n","B","o","i","l"," ","i","t",".">>
  , \* well formed, a digit in the title (53 characters)
    \*   Pasta 2
    \*   Ingredients:
    \*   - pasta
    \*   Instructions:
    \*   Cook well.
    Pasta2 |->
      <<"P","a","s","t","a"," ","2","\n","I","n","g","r","e","d","i","e","n","t","s",":","\n",
        "-"," ","p","a","s","t","a","\n","I","n","s","t","r","u","c","t","i","o","n","s",":","\n",
        "C","o","o","k"," ","w","e","l","l",".">>
  , \* no ingredients header, no list (42 characters)
    \*   Plain Toast
    \*   Instructions:
    \*   Toast the bread.
    PlainToast |->
      <<"P","l","a","i","n"," ","T","o","a","s","t","\n","I","n","s","t","r","u","c","t","i","o",
        "n","s",":","\n","T","o","a","s","t"," ","t","h","e"," ","b","r","e","a","d",".">>
  , \* below the minimum block length (22 characters)
    \*   Tea
    \*   Ingredients:
    \*   - tea
    Tea |->
      <<"T","e","a","\n","I","n","g","r","e","d","i","e","n","t","s",":","\n","-"," ","t","e",
        "a">>
  , \* no line qualifies as a title (46 characters)
    \*   Ingredients:
    \*   - ab
    \*   - cd
    \*   Instructions:
    \*   - ef
    \*   - gh
    NoTitle |->
      <<"I","n","g","r","e","d","i","e","n","t","s",":","\n","-"," ","a","b","\n","-"," ","c",
        "d","\n","I","n","s","t","r","u","c","t","i","o","n","s",":","\n","-"," ","e","f","\n",
        "-"," ","g","h">>
  , \* an ingredients header, a blank line, then the instructions (50 characters)
    \*   Fried Egg
    \*   Ingredients:
    \*   
    \*   Instructions:
    \*   Fry the egg.
    FriedEgg |->
      <<"F","r","i","e","d"," ","E","g","g","\n","I","n","g","r","e","d","i","e","n","t","s",":",
        "\n","\n","I","n","s","t","r","u","c","t","i","o","n","s",":","\n","F","r","y"," ","t",
        "h","e"," ","e","g","g",".">>
  , \* a decorated title right before the instructions header (40 characters)
    \*   **Toast**
    \*   Instructions:
    \*   Toast the bread.
    BoldToast |->
      <<"*","*","T","o","a","s","t","*","*","\n","I","n","s","t","r","u","c","t","i","o","n","s",
        ":","\n","T","o","a","s","t"," ","t","h","e"," ","b","r","e","a","d",".">>
  , \* explicit category and tag lines (75 characters)
    \*   Dip
    \*   Category: Snack
    \*   Region: Asia
    \*   Ingredients:
    \*   - soy
    \*   - lime
    \*   Directions:
    \*   Mix.
    Dip |->
      <<"D","i","p","\n","C","a","t","e","g","o","r","y",":"," ","S","n","a","c","k","\n","R",
        "e","g","i","o","n",":"," ","A","s","i","a","\n","I","n","g","r","e","d","i","e","n","t",
        "s",":","\n","-"," ","s","o","y","\n","-"," ","l","i","m","e","\n","D","i","r","e","c",
        "t","i","o","n","s",":","\n","M","i","x",".">>
  , \* a bullet list without a header (50 characters)
    \*   Salad Mix
    \*   - kale
    \*   - oil
    \*   Method:
    \*   Toss well together.
    SaladMix |->
      <<"S","a","l","a","d"," ","M","i","x","\n","-"," ","k","a","l","e","\n","-"," ","o","i",
        "l","\n","M","e","t","h","o","d",":","\n","T","o","s","s"," ","w","e","l","l"," ","t",
        "o","g","e","t","h","e","r",".">>
  , \* servings, numbered list, notes (76 characters)
    \*   Pea Soup
    \*   Serves: 4
    \*   Ingredients:
    \*   1. peas
    \*   2) water
    \*   Steps:
    \*   1. Boil.
    \*   Notes: Hot.
    PeaSoup |->
      <<"P","e","a"," ","S","o","u","p","\n","S","e","r","v","e","s",":"," ","4","\n","I","n",
        "g","r","e","d","i","e","n","t","s",":","\n","1","."," ","p","e","a","s","\n","2",")",
        " ","w","a","t","e","r","\n","S","t","e","p","s",":","\n","1","."," ","B","o","i","l",
        ".","\n","N","o","t","e","s",":"," ","H","o","t",".">>
  , \* CRLF line ends, no instructions header (58 characters)
    \*   Porridge\r
    \*   Ingredients:\r
    \*   - oats\r
    \*   - milk\r
    \*   stir over low heat
    Porridge |->
      <<"P","o","r","r","i","d","g","e","\r","\n","I","n","g","r","e","d","i","e","n","t","s",
        ":","\r","\n","-"," ","o","a","t","s","\r","\n","-"," ","m","i","l","k","\r","\n","s",
        "t","i","r"," ","o","v","e","r"," ","l","o","w"," ","h","e","a","t">>
  , \* the end-to-end scenario of the specification (125 characters)
    \*   Tomato Soup
    \*   
    \*   Ingredients:
    \*   - tomatoes
    \*   - onion
    \*   - garlic
    \*   
    \*   Instructions:
    \*   Sauté onion and garlic, add tomatoes, simmer 20 minutes.
    TomatoSoup |->
      <<"T","o","m","a","t","o"," ","S","o","u","p","\n","\n","I","n","g","r","e","d","i","e",
        "n","t","s",":","\n","-"," ","t","o","m","a","t","o","e","s","\n","-"," ","o","n","i",
        "o","n","\n","-"," ","g","a","r","l","i","c","\n","\n","I","n","s","t","r","u","c","t",
        "i","o","n","s",":","\n","S","a","u","t","é"," ","o","n","i","o","n"," ","a","n","d"," ",
        "g","a","r","l","i","c",","," ","a","d","d"," ","t","o","m","a","t","o","e","s",","," ",
        "s","i","m","m","e","r"," ","2","0"," ","m","i","n","u","t","e","s",".">>
  , \* the sample of Archive/IMPORT_ENHANCEMENT_INSTRUCTIONS.md (371 characters)
    \*   CLASSIC GUACAMOLE
    \*   Category: Snack
    \*   Type: quick, few ingredients
    \*   Region: Latin America
    \*   
    \*   INGREDIENTS:
    \*   - 3 ripe avocados
    \*   - 1 lime, juiced
    \*   - 1/2 teaspoon salt
    \*   - 2 tablespoons cilantro
    \*   - 1 tomato, diced
    \*   
    \*   DIRECTIONS:
    \*   Mash avocados in a bowl. Add lime juice and salt. Mix in cilantro and tomato. Serve immediately with tortilla chips.
    \*   
    \*   NOTES: Best made fresh, doesn't store well.
    Guacamole |->
      <<"C","L","A","S","S","I","C"," ","G","U","A","C","A","M","O","L","E","\n","C","a","t","e",
        "g","o","r","y",":"," ","S","n","a","c","k","\n","T","y","p","e",":"," ","q","u","i","c",
        "k",","," ","f","e","w"," ","i","n","g","r","e","d","i","e","n","t","s","\n","R","e","g",
        "i","o","n",":"," ","L","a","t","i","n"," ","A","m","e","r","i","c","a","\n","\n","I",
        "N","G","R","E","D","I","E","N","T","S",":","\n","-"," ","3"," ","r","i","p","e"," ","a",
        "v","o","c","a","d","o","s","\n","-"," ","1"," ","l","i","m","e",","," ","j","u","i","c",
        "e","d","\n","-"," ","1","/","2"," ","t","e","a","s","p","o","o","n"," ","s","a","l","t",
        "\n","-"," ","2"," ","t","a","b","l","e","s","p","o","o","n","s"," ","c","i","l","a","n",
        "t","r","o","\n","-"," ","1"," ","t","o","m","a","t","o",","," ","d","i","c","e","d","\n",
        "\n","D","I","R","E","C","T","I","O","N","S",":","\n","M","a","s","h"," ","a","v","o",
        "c","a","d","o","s"," ","i","n"," ","a"," ","b","o","w","l","."," ","A","d","d"," ","l",
        "i","m","e"," ","j","u","i","c","e"," ","a","n","d"," ","s","a","l","t","."," ","M","i",
        "x"," ","i","n"," ","c","i","l","a","n","t","r","o"," ","a","n","d"," ","t","o","m","a",
        "t","o","."," ","S","e","r","v","e"," ","i","m","m","e","d","i","a","t","e","l","y"," ",
        "w","i","t","h"," ","t","o","r","t","i","l","l","a"," ","c","h","i","p","s",".","\n","\n",
        "N","O","T","E","S",":"," ","B","e","s","t"," ","m","a","d","e"," ","f","r","e","s","h",
        ","," ","d","o","e","s","n","'","t"," ","s","t","o","r","e"," ","w","e","l","l",".">>
  , \* a category line whose value is no word (68 characters)
    \*   Egg Cup
    \*   Category: 2
    \*   Ingredients:
    \*   - egg
    \*   - salt
    \*   Instructions:
    \*   Boil it.
    EggCup |->
      <<"E","g","g"," ","C","u","p","\n","C","a","t","e","g","o","r","y",":"," ","2","\n","I",
        "n","g","r","e","d","i","e","n","t","s",":","\n","-"," ","e","g","g","\n","-"," ","s",
        "a","l","t","\n","I","n","s","t","r","u","c","t","i","o","n","s",":","\n","B","o","i",
        "l"," ","i","t",".">>
  , \* nothing but a title and an ingredients list (54 characters)
    \*   Nut Mix
    \*   Ingredients:
    \*   - nuts
    \*   - salt
    \*   - seeds and raisins
    NutMix |->
      <<"N","u","t"," ","M","i","x","\n","I","n","g","r","e","d","i","e","n","t","s",":","\n",
        "-"," ","n","u","t","s","\n","-"," ","s","a","l","t","\n","-"," ","s","e","e","d","s",
        " ","a","n","d"," ","r","a","i","s","i","n","s">>
  , \* the first line that qualifies as a title is the sixth (64 characters)
    \*   Serves 2
    \*   Ingredients:
    \*   - ab
    \*   - cd
    \*   Instructions:
    \*   Late Title
    \*   Mix it.
    LateTitle |->
      <<"S","e","r","v","e","s"," ","2","\n","I","n","g","r","e","d","i","e","n","t","s",":",
        "\n","-"," ","a","b","\n","-"," ","c","d","\n","I","n","s","t","r","u","c","t","i","o",
        "n","s",":","\n","L","a","t","e"," ","T","i","t","l","e","\n","M","i","x"," ","i","t",
        ".">>
  , \* the first line that qualifies as a title is the fifth (65 characters)
    \*   Serves 2
    \*   Ingredients:
    \*   - ab
    \*   - cd
    \*   Fifth Title
    \*   Instructions:
    \*   Mix it.
    FifthTitle |->
      <<"S","e","r","v","e","s"," ","2","\n","I","n","g","r","e","d","i","e","n","t","s",":",
        "\n","-"," ","a","b","\n","-"," ","c","d","\n","F","i","f","t","h"," ","T","i","t","l",
        "e","\n","I","n","s","t","r","u","c","t","i","o","n","s",":","\n","M","i","x"," ","i",
        "t",".">>
  , \* a dessert keyword in the title, an explicit category line last (74 characters)
    \*   Cake Pop
    \*   Ingredients:
    \*   - cake
    \*   - stick
    \*   Instructions:
    \*   Dip it.
    \*   Category: Drink
    CakePop |->
      <<"C","a","k","e"," ","P","o","p","\n","I","n","g","r","e","d","i","e","n","t","s",":",
        "\n","-"," ","c","a","k","e","\n","-"," ","s","t","i","c","k","\n","I","n","s","t","r",
        "u","c","t","i","o","n","s",":","\n","D","i","p"," ","i","t",".","\n","C","a","t","e",
        "g","o","r","y",":"," ","D","r","i","n","k">>
  , \* a drink keyword before a dessert keyword (74 characters)
    \*   Smoothie Bowl
    \*   Ingredients:
    \*   - banana
    \*   - sweet yogurt
    \*   Instructions:
    \*   Blend it.
    SmoothieBowl |->
      <<"S","m","o","o","t","h","i","e"," ","B","o","w","l","\n","I","n","g","r","e","d","i",
        "e","n","t","s",":","\n","-"," ","b","a","n","a","n","a","\n","-"," ","s","w","e","e",
        "t"," ","y","o","g","u","r","t","\n","I","n","s","t","r","u","c","t","i","o","n","s",
        ":","\n","B","l","e","n","d"," ","i","t",".">>
  , \* a Markdown heading marker inside the section (60 characters)
    \*   Herb Oil
    \*   ## Ingredients:
    \*   - herbs
    \*   - oil
    \*   Instructions:
    \*   Mix it.
    HerbOil |->
      <<"H","e","r","b"," ","O","i","l","\n","#","#"," ","I","n","g","r","e","d","i","e","n",
        "t","s",":","\n","-"," ","h","e","r","b","s","\n","-"," ","o","i","l","\n","I","n","s",
        "t","r","u","c","t","i","o","n","s",":","\n","M","i","x"," ","i","t",".">>
  , \* the word meal in the title, an explicit meal line (83 characters)
    \*   Oatmeal Dessert Bars
    \*   Meal: snack
    \*   Ingredients:
    \*   - oats
    \*   - honey
    \*   Instructions:
    \*   Bake it.
    OatBars |->
      <<"O","a","t","m","e","a","l"," ","D","e","s","s","e","r","t"," ","B","a","r","s","\n",
        "M","e","a","l",":"," ","s","n","a","c","k","\n","I","n","g","r","e","d","i","e","n",
        "t","s",":","\n","-"," ","o","a","t","s","\n","-"," ","h","o","n","e","y","\n","I","n",
        "s","t","r","u","c","t","i","o","n","s",":","\n","B","a","k","e"," ","i","t",".">>
  ]

\* What stands between two sections of one document
Delimiter ==
  [ blank   |-> <<"\n","\n","\n">>                        \* two blank lines
  , rule    |-> <<"\n","=","=","=","=","=","\n">>          \* a line of five =
  , dashes  |-> <<"\n","-","-","-","\n">>                  \* a line of three -
  , heading |-> <<"\n","\n","#","#"," ">>                  \* a blank line and a Markdown heading
  ]

MaxSections == 2      \* sections in one document
MaxItems == 2         \* elements in one JSON array
RandomValues == 2     \* values Math.random() can take

\* the sections that documents of several sections are made of
Combinable == {"RiceBowl", "Pasta2", "PlainToast", "Tea", "HerbOil"}

Documents ==
  {[secs |-> <<k>>, delim |-> "blank"] : k \in DOMAIN Section}
    \cup {[secs |-> ss, delim |-> d] :
            ss \in UNION {[1..n -> Combinable] : n \in 2..MaxSections},
            d \in DOMAIN Delimiter}

NoDocument == [secs |-> <<>>, delim |-> "blank"]

render(doc) ==
  join([i \in 1..Len(doc.secs) |-> Section[doc.secs[i]]], Delimiter[doc.delim])

\* The objects a JSON payload is made of
JsonItem ==
  [ full |->        \* every field present, ingredients as an array
      Obj([title |-> Str(<<"R","i","c","e"," ","B","o","w","l">>),
           category |-> Str(<<"S","i","d","e">>),
           servings |-> Str(<<"2">>),
           ingredients |-> Arr(<<<<"r","i","c","e">>, <<"o","i","l">>>>),
           instructions |-> Str(<<"B","o","i","l"," ","i","t",".">>),
           notes |-> Str(<<"H","o","t",".">>),
           tags |-> Obj([type |-> <<<<"q","u","i","c","k">>>>, region |-> <<<<"A","s","i","a">>>>,
                         meal |-> <<>>, source |-> <<>>])])
  , bare |->        \* {}
      Obj([title |-> Undefined, category |-> Undefined, servings |-> Undefined,
           ingredients |-> Undefined, instructions |-> Undefined, notes |-> Undefined,
           tags |-> Undefined])
  , listed |->      \* ingredients as one comma-separated string, "soy, lime ,salt"
      Obj([title |-> Str(<<"D","i","p">>), category |-> Undefined, servings |-> Undefined,
           ingredients |-> Str(<<"s","o","y",","," ","l","i","m","e"," ",",","s","a","l","t">>),
           instructions |-> Undefined, notes |-> Undefined, tags |-> Undefined])
  , blankList |->   \* ingredients: ""
      Obj([title |-> Str(<<"T","o","a","s","t">>), category |-> Undefined, servings |-> Undefined,
           ingredients |-> Str(<<>>),
           instructions |-> Undefined, notes |-> Undefined, tags |-> Undefined])
  , emptyList |->   \* ingredients: []
      Obj([title |-> Str(<<"W","a","t","e","r">>), category |-> Undefined, servings |-> Undefined,
           ingredients |-> Arr(<<>>),
           instructions |-> Undefined, notes |-> Undefined, tags |-> Undefined])
  , null |-> JsNull
  ]

JsonItems == {JsonItem[k] : k \in DOMAIN JsonItem}

JsonPayloads ==
  {SyntaxError} \cup JsonItems
    \cup {Arr(xs) : xs \in UNION {[1..n -> JsonItems] : n \in 0..MaxItems}}

----------------------------------------------------------------------------
(* The importer as a state machine *)

\* the page is not open
ListOff ==
  /\ recipesState = <<>>
  /\ store = <<>>
  /\ lastDocId = 0

\* FamilyRecipes is not mounted
PageOff ==
  /\ user = Null
  /\ showAuthModal = FALSE
  /\ selectedRecipe = Null
  /\ isAddingNew = FALSE
  /\ isEditing = FALSE
  /\ editingRecipeId = Null
  /\ isManaging = FALSE
  /\ newRecipe = Null
  /\ importStatus = Null
  /\ showPasteModal = FALSE
  /\ pasteText = <<>>
  /\ tasks = <<>>
  /\ events = 0

AppOff == ListOff /\ PageOff

\* no filter is set
FilterOff ==
  /\ searchQuery = <<>>
  /\ selectedCategory = <<"A","l","l">>
  /\ activeTagFilters = EmptyTags

\* no wake lock was requested
WakeOff ==
  /\ wakeLock = 0
  /\ isActive = FALSE
  /\ held = {}
  /\ lastLockId = 0
  /\ lockRequests = 0
  /\ effectLock = 0
  /\ similarRecipes = <<>>

ViewOff == FilterOff /\ WakeOff

\* findSimilarRecipes is not called
SimilarOff == query = Null /\ scored = <<>> /\ simPc = "off"

\* the importer is not called
ImporterOff ==
  /\ kind = "none"
  /\ made = NoDocument
  /\ text = <<>>
  /\ data = Undefined
  /\ now = 0
  /\ pc = "off"
  /\ filtered = <<>>
  /\ blocks = <<>>
  /\ handed = <<>>
  /\ results = <<>>
  /\ recipes = <<>>
  /\ outcome = "none"
  /\ reimported = <<>>

Init ==
  /\ SimilarOff
  /\ AppOff
  /\ ViewOff
  /\ now = 0
  /\ pc = "idle"
  /\ filtered = <<>>
  /\ blocks = <<>>
  /\ handed = <<>>
  /\ results = <<>>
  /\ recipes = <<>>
  /\ outcome = "none"
  /\ reimported = <<>>
  /\ \/ /\ kind = "text"
        /\ made \in Documents
        /\ text = render(made)
        /\ data = Undefined
     \/ /\ kind = "json"
        /\ made = NoDocument
        /\ text = <<>>
        /\ data \in JsonPayloads

\* Date.now(), in units of 1/RandomValues millisecond
dateNow == now * RandomValues

\* Date.now() + Math.random()
newId(rnd) == dateNow + rnd

\* parseText up to its for-loop: normalise, split, trim and filter
ParseTextSplit ==
  /\ kind = "text"
  /\ pc = "idle"
  /\ filtered' = splitBlocks(text)
  /\ blocks' = filtered'
  /\ recipes' = <<>>
  /\ pc' = "loop"
  /\ UNCHANGED <<kind, made, text, data, now, handed, results, outcome, reimported,
                 similarVars, appVars, events, viewVars>>

\* if (recipe) recipes.push(recipe)
push(list, recipe) == IF recipe # Null THEN Append(list, recipe) ELSE list

\* the term Math.random() of the id of a record
plusRandom(recipe, rnd) ==
  IF recipe = Null THEN Null ELSE [recipe EXCEPT !.id = newId(rnd)]

\* const recipe = parseRecipeBlock(block); if (recipe) recipes.push(recipe)
Returned(recipe) ==
  /\ results' = Append(results, recipe)
  /\ \E rnd \in 0..(RandomValues - 1) : recipes' = push(recipes, plusRandom(recipe, rnd))

\* a faulty iteration: a rejected block ends the loop
ParseTextBlockAborting ==
  /\ pc = "loop"
  /\ blocks # <<>>
  /\ handed' = Append(handed, Head(blocks))
  /\ Returned(parseRecipeBlock(Head(blocks), dateNow))
  /\ blocks' = IF results'[Len(results')] = Null THEN <<>> ELSE Tail(blocks)
  /\ UNCHANGED <<kind, made, text, data, now, pc, filtered, outcome, reimported,
                 similarVars, appVars, events, viewVars>>

\* one iteration of the for-loop of parseText
ParseTextBlock ==
  /\ pc = "loop"
  /\ blocks # <<>>
  /\ handed' = Append(handed, Head(blocks))
  /\ Returned(parseRecipeBlock(Head(blocks), dateNow))
  /\ blocks' = Tail(blocks)
  /\ UNCHANGED <<kind, made, text, data, now, pc, filtered, outcome, reimported,
                 similarVars, appVars, events, viewVars>>

\* return recipes
ParseTextReturn ==
  /\ pc = "loop"
  /\ blocks = <<>>
  /\ pc' = "done"
  /\ outcome' = "returned"
  /\ UNCHANGED <<kind, made, text, data, now, filtered, blocks, handed, results, recipes,
               reimported,
                 similarVars, appVars, events, viewVars>>

\* parseJSON, one call
ParseJSON ==
  /\ kind = "json"
  /\ pc = "idle"
  /\ pc' = "done"
  /\ IF parseJSONThrows(data)
       THEN outcome' = "threw" /\ recipes' = <<>>
       ELSE /\ outcome' = "returned"
            /\ \E ids \in [1..Len(asArray(data)) -> {newId(rnd) : rnd \in 0..(RandomValues - 1)}] :
                 recipes' = parseJSON(data, ids)
  /\ UNCHANGED <<kind, made, text, data, now, filtered, blocks, handed, results, reimported,
                 similarVars, appVars, events, viewVars>>

\* the list the importer returned is exported with toJSON and imported again with parseJSON
RoundTrip ==
  /\ pc = "done"
  /\ outcome = "returned"
  /\ pc' = "exported"
  /\ \E ids \in [1..Len(recipes) -> {newId(rnd) : rnd \in 0..(RandomValues - 1)}] :
       reimported' = parseJSON(toJSON(recipes), ids)
  /\ UNCHANGED <<kind, made, text, data, now, filtered, blocks, handed, results, recipes,
                 outcome,
                 similarVars, appVars, events, viewVars>>

Next == ParseTextSplit \/ ParseTextBlock \/ ParseTextReturn \/ ParseJSON \/ RoundTrip

Spec == Init /\ [][Next]_vars

----------------------------------------------------------------------------
(* The properties of the importer *)

\* a record without its id
content(r) ==
  [title |-> r.title, category |-> r.category, servings |-> r.servings,
   ingredients |-> r.ingredients, instructions |-> r.instructions,
   notes |-> r.notes, tags |-> r.tags]

contents(list) == [i \in 1..Len(list) |-> content(list[i])]

isRecord(r) == r # Null

textDone == kind = "text" /\ pc = "done"
jsonDone == kind = "json" /\ pc = "done"

\* C1: parseRecipeBlock returns a record only for a block from which it extracted
\* a non-empty title and at least one ingredient, and null, without throwing, for
\* every other block; so every record parseText has collected has a non-empty
\* title and a non-empty ingredient list.
C1_RecordOnlyWithTitleAndIngredient ==
  kind = "text" =>
    /\ outcome # "threw"
    /\ Len(results) = Len(handed)
    /\ \A i \in 1..Len(results) :
         results[i] # Null => results[i].title # <<>> /\ Len(results[i].ingredients) > 0
    /\ (Len(handed) = 1 /\ results[1] # Null) =>
         /\ results[1].title = extractTitle(blockLines(handed[1]))
         /\ results[1].ingredients = extractIngredients(handed[1])
    /\ \A i \in 1..Len(recipes) :
         recipes[i].title # <<>> /\ Len(recipes[i].ingredients) > 0

\* a block with a title and no ingredient was rejected, next to a block that gave a record
C1_Witness ==
  /\ textDone
  /\ recipes # <<>>
  /\ \E i \in 1..Len(handed) :
       /\ results[i] = Null
       /\ extractTitle(blockLines(handed[i])) # <<>>
       /\ extractIngredients(handed[i]) = <<>>

\* C2: every value stored under a tag category of a record parseText returns is
\* a member of the options of that category exactly as configured, same spelling
\* and same letter case, whether it came from the explicit line or from the scan.
C2_TagsAreConfiguredOptions ==
  kind = "text" =>
    \A i \in 1..Len(recipes) : \A tagCat \in DOMAIN TAG_CATEGORIES :
      \A k \in 1..Len(recipes[i].tags[tagCat]) :
        recipes[i].tags[tagCat][k] \in Range(TAG_CATEGORIES[tagCat])

\* C3: every record the importer returns, by parseText or by parseJSON, has a
\* non-empty title and a non-empty ingredients list whose entries are non-empty
\* strings, JSON items without ingredients, with '' or with [] included.
C3_TitleAndIngredientsNonEmpty ==
  \A i \in 1..Len(recipes) :
    /\ recipes[i].title # <<>>
    /\ recipes[i].ingredients # <<>>
    /\ \A k \in 1..Len(recipes[i].ingredients) : recipes[i].ingredients[k] # <<>>

\* the sections with a title, an instructions header with text, and no ingredient line
WithoutIngredientLines == {"PlainToast", "FriedEgg", "BoldToast"}

\* C4: a block with a title and an instructions section with text but no
\* ingredient line (no ingredients header, or an ingredients header followed by a
\* blank line and the instructions header) is rejected: parseText emits no record.
C4_NoIngredientLineRejected ==
  (kind = "text" /\ Len(made.secs) = 1 /\ made.secs[1] \in WithoutIngredientLines)
    => recipes = <<>>

TomatoSoupTitle == <<"T","o","m","a","t","o"," ","S","o","u","p">>
TomatoSoupIngredients ==
  << <<"t","o","m","a","t","o","e","s">>, <<"o","n","i","o","n">>, <<"g","a","r","l","i","c">> >>
\* 'Sauté onion and garlic, add tomatoes, simmer 20 minutes.'
TomatoSoupSentence ==
  <<"S","a","u","t","é"," ","o","n","i","o","n"," ","a","n","d"," ","g","a","r","l","i","c",",",
    " ","a","d","d"," ","t","o","m","a","t","o","e","s",","," ","s","i","m","m","e","r"," ",
    "2","0"," ","m","i","n","u","t","e","s",".">>

\* parseText has returned for the text of the end-to-end scenario
TomatoSoupDone == textDone /\ made.secs = <<"TomatoSoup">>

\* the list parseText returns is the one record of the scenario, with this category
tomatoSoupRecord(category) ==
  /\ Len(recipes) = 1
  /\ recipes[1].title = TomatoSoupTitle
  /\ recipes[1].category = category
  /\ recipes[1].ingredients = TomatoSoupIngredients
  /\ recipes[1].instructions = TomatoSoupSentence
  /\ recipes[1].notes = <<>>

\* C5 (as the code has it): parseText on the Tomato Soup text returns exactly one
\* record with title 'Tomato Soup', category 'Soup' (the keyword soup of the
\* title), ingredients tomatoes, onion, garlic in that order, the instruction
\* sentence as instructions, and empty notes.
C5_TomatoSoupIsSoup == TomatoSoupDone => tomatoSoupRecord(Category.Soup)

\* C5 (as claimed): the same record with category 'Main'
C5_TomatoSoupIsMain == TomatoSoupDone => tomatoSoupRecord(Category.Main)

C5_Witness == TomatoSoupDone /\ outcome = "returned" /\ Len(recipes) = 1

\* the sections with the explicit line 'Category: Snack' followed by other lines
WithCategoryLine == {"Dip", "Guacamole"}

\* C6: when a block has an explicit line 'Category: V', the category of the
\* record is exactly V, the value on that line only, whatever the next lines are.
C6_ExplicitCategoryVerbatim ==
  (textDone /\ Len(made.secs) = 1 /\ made.secs[1] \in WithCategoryLine)
    => (Len(recipes) = 1 /\ recipes[1].category = Category.Snack)

\* the well-formed sections (title line, ingredients header with a bullet list,
\* instructions header with text, longer than the minimum) and their titles
WellFormed ==
  [RiceBowl |-> <<"R","i","c","e"," ","B","o","w","l">>,
   Pasta2   |-> <<"P","a","s","t","a"," ","2">>]

\* C7: for a text of N well-formed sections separated by a recognised delimiter
\* (a separator line, blank lines before the next title, a Markdown heading)
\* parseText returns exactly N records, one per section, in section order.
C7_OneRecordPerSection ==
  (textDone /\ \A i \in 1..Len(made.secs) : made.secs[i] \in DOMAIN WellFormed)
    => /\ Len(recipes) = Len(made.secs)
       /\ \A i \in 1..Len(recipes) : recipes[i].title = WellFormed[made.secs[i]]

\* C8: parseText never hands parseRecipeBlock a block whose trimmed length is
\* not above the minimum block length of 30, whichever rule split the text.
C8_NoShortBlockHanded ==
  \A i \in 1..Len(handed) : Len(trim(handed[i])) > MIN_BLOCK_LENGTH

\* the split gave a block of 30 characters or less, and parseText has gone
\* through its loop with the other blocks
C8_Witness ==
  /\ textDone
  /\ handed # <<>>
  /\ \E i \in 1..Len(bySeparator(normalize(text))) :
       Len(trim(bySeparator(normalize(text))[i])) <= MIN_BLOCK_LENGTH

\* C9: a rejected block does not abort the import: parseText goes through every
\* block, collects exactly the records of the blocks that parse, in block order,
\* and returns without an error (the empty list when no block parses).
C9_RejectedBlockDoesNotAbort ==
  kind = "text" =>
    /\ outcome # "threw"
    /\ handed \o blocks = filtered
    /\ Len(results) = Len(handed)
    /\ contents(recipes) = contents(SelectSeq(results, isRecord))
    /\ pc = "done" => blocks = <<>> /\ outcome = "returned"

\* a rejected block was followed by a block that gave a record
C9_Witness ==
  /\ textDone
  /\ \E i \in 1..(Len(handed) - 1) : results[i] = Null /\ results[i + 1] # Null
  /\ Len(recipes) < Len(handed)

\* the offsets that bound the pieces of s between its commas, and the k-th of them
commaCuts(s) == {0, Len(s) + 1} \cup {i \in 1..Len(s) : s[i] = ","}
cutAt(s, k) == CHOOSE c \in commaCuts(s) : Cardinality({d \in commaCuts(s) : d < c}) = k - 1

\* the pieces of s between its commas, each one trimmed
trimmedPieces(s) ==
  [k \in 1..(Cardinality(commaCuts(s)) - 1) |->
     trim(SubSeq(s, cutAt(s, k) + 1, cutAt(s, k + 1) - 1))]

\* the payload is valid JSON: one object, or an array of objects
objectsOnly ==
  \/ data.t = "object"
  \/ data.t = "array" /\ \A i \in 1..Len(data.v) : data.v[i].t = "object"

\* C10: parseJSON on valid JSON returns one record for a single object and k
\* records in input order for an array of k objects; in each record a missing
\* title becomes 'Untitled Recipe', a missing category 'Main', missing tags the
\* four empty categories, an ingredients array is kept as it is, and an
\* ingredients string is split on commas, each piece trimmed.
C10_OneRecordPerObject ==
  (jsonDone /\ objectsOnly) =>
    /\ outcome = "returned"
    /\ data.t = "object" => Len(recipes) = 1
    /\ data.t = "array" => Len(recipes) = Len(data.v)
    /\ \A i \in 1..Len(recipes) :
         LET item == asArray(data)[i].v
         IN  /\ recipes[i].title =
                  (IF item.title = Undefined THEN UntitledRecipe ELSE item.title.v)
             /\ recipes[i].category =
                  (IF item.category = Undefined THEN Category.Main ELSE item.category.v)
             /\ item.tags = Undefined =>
                  recipes[i].tags =
                    [type |-> <<>>, region |-> <<>>, meal |-> <<>>, source |-> <<>>]
             /\ item.ingredients.t = "array" => recipes[i].ingredients = item.ingredients.v
             /\ item.ingredients.t = "string" =>
                  recipes[i].ingredients = trimmedPieces(item.ingredients.v)
             /\ asArray(data)[i] = JsonItem.listed =>
                  recipes[i].ingredients =
                    << <<"s","o","y">>, <<"l","i","m","e">>, <<"s","a","l","t">> >>

\* an array of two objects, one with a comma-separated ingredients string and
\* one without any field, gave two records
C10_Witness ==
  /\ jsonDone
  /\ data = Arr(<<JsonItem.listed, JsonItem.bare>>)
  /\ outcome = "returned"
  /\ Len(recipes) = 2

\* C11: the JSON round trip. For the list L the importer returned,
\* parseJSON(toJSON(L)) has the length of L and, position by position, the title,
\* the category and the ingredient list of L; only the ids may differ.
C11_JsonRoundTrip ==
  pc = "exported" =>
    /\ Len(reimported) = Len(recipes)
    /\ \A i \in 1..Len(recipes) :
         /\ reimported[i].title = recipes[i].title
         /\ reimported[i].category = recipes[i].category
         /\ reimported[i].ingredients = recipes[i].ingredients

\* C13: any two records the importer created have distinct ids, records created
\* within the same clock tick included.
C13_IdsDistinct ==
  \A i, j \in 1..Len(recipes) : i # j => recipes[i].id # recipes[j].id

\* the block handed to parseRecipeBlock last, and what it returned
lastHanded == handed[Len(handed)]
lastResult == results[Len(results)]

\* C18: every record parseText returns has non-empty instructions; when neither an
\* instructions header nor the text after the ingredients yields any, the
\* instructions are exactly 'No instructions provided', and the block is emitted
\* all the same: a block is rejected only for its lines, its title or its ingredients.
C18_SentinelInstructions ==
  (kind = "text" /\ handed # <<>>) =>
    /\ \A i \in 1..Len(recipes) : recipes[i].instructions # <<>>
    /\ lastResult # Null =>
         /\ lastResult.instructions # <<>>
         /\ extractInstructions(lastHanded, lastResult.ingredients) = <<>> =>
              lastResult.instructions = NoInstructionsProvided
    /\ lastResult = Null =>
         \/ Len(blockLines(lastHanded)) < MIN_LINES
         \/ extractTitle(blockLines(lastHanded)) = <<>>
         \/ extractIngredients(lastHanded) = <<>>

\* a block with a title and a list and nothing else gave a record with the sentinel
C18_Witness ==
  /\ textDone
  /\ made.secs = <<"NutMix">>
  /\ Len(recipes) = 1
  /\ extractInstructions(handed[1], recipes[1].ingredients) = <<>>
  /\ recipes[1].instructions = NoInstructionsProvided

\* a cleaned line qualifies as a title: 3 to 100 characters, none of the three words
qualifies(cleaned) ==
  /\ Len(cleaned) >= 3
  /\ Len(cleaned) <= 100
  /\ \A word \in {W.ingredient, W.instructions, W.serves} : ~includes(toLowerCase(cleaned), word)

\* the positions, among the first n non-empty lines of the block, of the lines that qualify
qualifying(block, n) ==
  {i \in 1..Len(blockLines(block)) : i <= n /\ qualifies(cleanTitle(blockLines(block)[i]))}

\* the keyword groups in their order, and the category of each
KeywordGroups ==
  << [words |-> {W.breakfast, W.brekkie}, category |-> Category.Breakfast],
     [words |-> {W.dessert, W.sweet, W.cake, W.cookie}, category |-> Category.Dessert],
     [words |-> {W.soup, W.stew, W.broth}, category |-> Category.Soup],
     [words |-> {W.salad}, category |-> Category.Salad],
     [words |-> {W.snack, W.appetizer, W.starter}, category |-> Category.Snack],
     [words |-> {W.drink, W.beverage, W.smoothie}, category |-> Category.Drink] >>

\* a keyword of the g-th group occurs somewhere in the block, in any case of letters
keywordOf(g, block) == \E w \in KeywordGroups[g].words : includes(toLowerCase(block), w)

\* the first group with a keyword in the block, 0 if there is none
firstKeywordGroup(block) == firstOf({g \in 1..Len(KeywordGroups) : keywordOf(g, block)})

\* the block has an explicit category marker: the word category, colons or white space, and
\* letters or white space
hasCategoryMarker(block) == match(categoryPatterns[1].pattern, block).ok

\* the value the marker gives, trimmed
markerValue(block) == trim(group1(block, match(categoryPatterns[1].pattern, block)))

sectionBlocks == SelectSeq([i \in 1..Len(made.secs) |-> trim(Section[made.secs[i]])], longEnough)

\* C22: a text whose sections are separated by a line of three or more '-' or of three or
\* more '=' is split at every such line: the blocks are the sections.
C22_SplitsAtSeparatorLines ==
  (kind = "text" /\ pc # "idle" /\ made.delim \in {"rule", "dashes"}) =>
    filtered = sectionBlocks

\* the text as parseText splits it, after the line ends and blank lines are normalised
bySeparatorOnly == split(SplitRe.separator, normalize(text))
byTitleOnly == split(SplitRe.titleBreak, normalize(text))
byHeaderOnly == split(SplitRe.mdHeader, normalize(text))

\* C23: the rules of the splitter are a layered fallback: the blocks are those of the
\* separator-line rule when it gives more than one; otherwise those of the rule of blank lines
\* before a title when it gives more than one; otherwise those of the Markdown-heading rule.
\* No later rule is applied to the text or to the blocks of an earlier rule, so a heading
\* marker inside such a block does not split it.
C23_LayeredFallback ==
  (kind = "text" /\ pc # "idle") =>
    filtered = SelectSeq(trimEach(IF Len(bySeparatorOnly) > 1 THEN bySeparatorOnly
                                  ELSE IF Len(byTitleOnly) > 1 THEN byTitleOnly
                                  ELSE byHeaderOnly),
                         longEnough)

\* the separator-line rule gave two blocks, and one of them holds a heading marker at which
\* the heading rule would split the text
C23_Witness ==
  /\ kind = "text"
  /\ pc # "idle"
  /\ Len(bySeparatorOnly) = 2
  /\ Len(byHeaderOnly) > 1
  /\ Len(filtered) = 2
  /\ \E k \in 1..2 : Len(split(SplitRe.mdHeader, filtered[k])) > 1

\* the line is an explicit tag line of the category: '<category>: values'
isTagLine(line, tagCat) ==
  /\ Len(line) > Len(W[tagCat])
  /\ SubSeq(toLowerCase(line), 1, Len(W[tagCat]) + 1) = W[tagCat] \o <<":">>

\* the values of the first explicit tag line of the category that match an option, in lower
\* case; none if the block has no such line
validLineValues(block, tagCat) ==
  LET tagLines == SelectSeq(trimEach(splitChars(block, {NL})), LAMBDA l : isTagLine(l, tagCat))
      values == IF tagLines = <<>> THEN <<>>
                ELSE lowerTrim(splitChars(SubSeq(tagLines[1], Len(W[tagCat]) + 2,
                                                 Len(tagLines[1])), {",", "|"}))
  IN  SelectSeq(values, LAMBDA v : \E k \in 1..Len(TAG_CATEGORIES[tagCat]) :
                                      toLowerCase(TAG_CATEGORIES[tagCat][k]) = v)

\* the options of the category that occur in the lower-cased block
optionsInBlock(block, tagCat) ==
  SelectSeq(TAG_CATEGORIES[tagCat],
            LAMBDA option : includes(toLowerCase(block), toLowerCase(option)))

\* C24: for every record and every tag category: when the block has an explicit line
\* '<category>: v1, v2 | v3' with at least one value that matches an option (case ignored),
\* the tags of the category are the matching values of that line and nothing else (compared
\* without regard to case); otherwise they are the options that occur in the lower-cased
\* block.
C24_ExplicitLineBeforeScan ==
  kind = "text" =>
    \A k \in 1..Len(results) :
      results[k] # Null =>
        \A tagCat \in DOMAIN TAG_CATEGORIES :
          IF validLineValues(handed[k], tagCat) # <<>>
            THEN [i \in 1..Len(results[k].tags[tagCat]) |->
                    toLowerCase(results[k].tags[tagCat][i])]
                   = validLineValues(handed[k], tagCat)
            ELSE results[k].tags[tagCat] = optionsInBlock(handed[k], tagCat)

\* C20: title extraction examines only the first five non-empty lines of a block.
\* The title of a record is the cleaned, title-cased form of the first of those
\* lines that qualifies; a qualifying line at position six or later is never used,
\* and the block is rejected when none of the first five lines qualifies.
C20_TitleFromFirstFiveLines ==
  (kind = "text" /\ handed # <<>>) =>
    /\ lastResult # Null =>
         /\ qualifying(lastHanded, 5) # {}
         /\ lastResult.title = cleanTitle(blockLines(lastHanded)[SetMin(qualifying(lastHanded, 5))])
    /\ qualifying(lastHanded, 5) = {} => lastResult = Null

\* a block whose sixth line is the first to qualify was handed over and rejected
C20_Witness ==
  /\ textDone
  /\ made.secs = <<"LateTitle">>
  /\ Len(handed) = 1
  /\ qualifying(handed[1], 5) = {}
  /\ 6 \in qualifying(handed[1], 6)
  /\ extractIngredients(handed[1]) # <<>>
  /\ results[1] = Null
  /\ recipes = <<>>

----------------------------------------------------------------------------
(* findSimilarRecipes *)

DEFAULT_MAX_RESULTS == 4     \* maxResults = 4
MIN_SHARED == 2              \* item.sharedCount >= 2

\* the argument maxResults: a number, or left out of the call
Given(n) == [omitted |-> FALSE, n |-> n]
Omitted == [omitted |-> TRUE, n |-> 0]

\* ingredients.map(i => i.toLowerCase())
lowerEach(ingredients) == [i \in 1..Len(ingredients) |-> toLowerCase(ingredients[i])]

\* sharedCount / totalUnique, as a fraction; 0 when totalUnique is 0
ratio(sharedCount, totalUnique) ==
  IF totalUnique > 0 THEN [num |-> sharedCount, den |-> totalUnique] ELSE [num |-> 0, den |-> 1]

\* the entry of the candidate r; sharedIngredients: otherIngredients.filter(i => recipeIngredients.has(i))
entry(r, sharedIngredients, totalUnique) ==
  [recipe |-> r,
   similarity |-> ratio(Len(sharedIngredients), totalUnique),
   sharedCount |-> Len(sharedIngredients),
   sharedIngredients |-> sharedIngredients]

\* the map callback
scoreOf(recipeIngredients, r, otherIngredients) ==
  entry(r, SelectSeq(otherIngredients, LAMBDA i : i \in recipeIngredients),
        Cardinality(recipeIngredients \cup Range(otherIngredients)))

scoreEach(recipeIngredients, others) ==
  [k \in 1..Len(others) |->
     scoreOf(recipeIngredients, others[k], lowerEach(others[k].ingredients))]

\* b.similarity - a.similarity > 0: the comparator puts b before a
above(b, a) == b.similarity.num * a.similarity.den > a.similarity.num * b.similarity.den

\* Array.prototype.sort with that comparator: a stable sort, the higher score first
sortBySimilarity(items) ==
  LET rank(i) == Cardinality({j \in 1..Len(items) :
                                \/ above(items[j], items[i])
                                \/ (~above(items[i], items[j]) /\ j < i)})
  IN  [k \in 1..Len(items) |-> items[CHOOSE i \in 1..Len(items) : rank(i) = k - 1]]

\* items.slice(0, end), end not negative
slice(items, end) == SubSeq(items, 1, IF end < Len(items) THEN end ELSE Len(items))

findSimilarRecipes(recipe, allRecipes, maxResults) ==
  IF recipe = Null \/ Len(allRecipes) = 0 THEN <<>>
  ELSE slice(sortBySimilarity(
               SelectSeq(scoreEach(Range(lowerEach(recipe.ingredients)),
                                   SelectSeq(allRecipes, LAMBDA r : r.id # recipe.id)),
                         LAMBDA item : item.sharedCount >= MIN_SHARED)),
             IF maxResults.omitted THEN DEFAULT_MAX_RESULTS ELSE maxResults.n)

\* The recipes the lists in memory are made of: an id and the ingredients
Book ==
  << [id |-> 1, ingredients |->   \* Pancakes: flour, milk, eggs
        <<<<"f","l","o","u","r">>, <<"m","i","l","k">>, <<"e","g","g","s">>>>],
     [id |-> 2, ingredients |->   \* Crepes: Flour, Milk, eggs, butter
        <<<<"F","l","o","u","r">>, <<"M","i","l","k">>, <<"e","g","g","s">>, <<"b","u","t","t","e","r">>>>],
     [id |-> 3, ingredients |->   \* Omelette: eggs, butter, milk, salt
        <<<<"e","g","g","s">>, <<"b","u","t","t","e","r">>, <<"m","i","l","k">>, <<"s","a","l","t">>>>],
     [id |-> 4, ingredients |->   \* Brine: salt, Salt, water
        <<<<"s","a","l","t">>, <<"S","a","l","t">>, <<"w","a","t","e","r">>>>],
     [id |-> 5, ingredients |->   \* Custard: milk, eggs, flour
        <<<<"m","i","l","k">>, <<"e","g","g","s">>, <<"f","l","o","u","r">>>>],
     [id |-> 6, ingredients |->   \* Toast: bread
        <<<<"b","r","e","a","d">>>>],
     [id |-> 7, ingredients |->   \* Batter: eggs, flour, milk, water
        <<<<"e","g","g","s">>, <<"f","l","o","u","r">>, <<"m","i","l","k">>, <<"w","a","t","e","r">>>>],
     [id |-> 8, ingredients |->   \* Scramble: eggs, milk, salt
        <<<<"e","g","g","s">>, <<"m","i","l","k">>, <<"s","a","l","t">>>>] >>

\* A recipe that is opened but is in no list: salt, water
Saline ==
  [id |-> 9, ingredients |-> <<<<"s","a","l","t">>, <<"w","a","t","e","r">>>>]

MaxCorpus == 6        \* recipes in allRecipes
MaxResultsArg == 2    \* the largest maxResults passed explicitly

\* the lists in memory: recipes of the book, in the order of the book
Corpora ==
  {SelectSeq(Book, LAMBDA r : r.id \in ids) :
     ids \in {c \in SUBSET (1..Len(Book)) : Cardinality(c) <= MaxCorpus}}

SimilarInit ==
  /\ simPc = "called"
  /\ scored = <<>>
  /\ query \in [recipe : Range(Book) \cup {Saline, Null},
                 allRecipes : Corpora,
                 maxResults : {Given(n) : n \in 0..MaxResultsArg} \cup {Omitted}]
  /\ ImporterOff
  /\ AppOff
  /\ ViewOff

\* the call returns
FindSimilar ==
  /\ simPc = "called"
  /\ scored' = findSimilarRecipes(query.recipe, query.allRecipes, query.maxResults)
  /\ simPc' = "returned"
  /\ UNCHANGED <<query, importerVars, appVars, events, viewVars>>

SimilarSpec == SimilarInit /\ [][FindSimilar]_vars

----------------------------------------------------------------------------
(* The properties of findSimilarRecipes *)

\* the ingredient set of a recipe, compared without regard to case
ingredientSet(r) == Range(lowerEach(r.ingredients))

\* the position of the recipe with that id in the list
positionOf(id, list) == SetMin({k \in 1..Len(list) : list[k].id = id})

\* the cap on the number of results: maxResults, 4 when it is left out
capOf(maxResults) == IF maxResults.omitted THEN 4 ELSE maxResults.n

similarReturned == simPc = "returned" /\ query.recipe # Null

\* C14: findSimilarRecipes(recipe, corpus, N) never returns the reference recipe
\* itself, never returns a candidate that shares fewer than 2 ingredients with
\* the reference, returns at most N entries (4 when N is omitted), in
\* non-increasing order of similarity, equal scores in corpus order.
C14_SimilarResults ==
  similarReturned =>
    /\ \A k \in 1..Len(scored) : scored[k].recipe.id # query.recipe.id
    /\ \A k \in 1..Len(scored) :
         Cardinality(ingredientSet(query.recipe) \cap ingredientSet(scored[k].recipe)) >= 2
    /\ Len(scored) <= capOf(query.maxResults)
    /\ \A k, l \in 1..Len(scored) :
         k < l =>
           /\ ~above(scored[l], scored[k])
           /\ ~above(scored[k], scored[l]) =>
                positionOf(scored[k].recipe.id, query.allRecipes)
                  < positionOf(scored[l].recipe.id, query.allRecipes)

\* C15: for every candidate that is scored, sharedCount is the size of the
\* intersection of the two ingredient sets (case-insensitive, a duplicate within a
\* recipe counted once) and similarity is that size divided by the size of the
\* union of the two sets.
C15_JaccardScore ==
  similarReturned =>
    \A k \in 1..Len(scored) :
      LET both == ingredientSet(query.recipe) \cap ingredientSet(scored[k].recipe)
          either == ingredientSet(query.recipe) \cup ingredientSet(scored[k].recipe)
      IN  /\ scored[k].sharedCount = Cardinality(both)
          /\ scored[k].similarity.num * Cardinality(either)
               = Cardinality(both) * scored[k].similarity.den

\* C30: every similarity score of a returned entry lies between 0 and 1 inclusive, also
\* when an ingredient list names the same ingredient more than once.
C30_ScoreInUnitInterval ==
  similarReturned =>
    \A k \in 1..Len(scored) :
      /\ 0 <= scored[k].similarity.num
      /\ scored[k].similarity.num <= scored[k].similarity.den

\* C16: similarity is symmetric. In a corpus small enough that the cap removes
\* nothing, B is in findSimilarRecipes(A, corpus) if and only if A is in
\* findSimilarRecipes(B, corpus), with the same similarity score.
C16_Symmetric ==
  (similarReturned /\ Len(query.allRecipes) <= capOf(query.maxResults)) =>
    \A b \in 1..Len(query.allRecipes) :
      LET B == query.allRecipes[b]
          back == findSimilarRecipes(B, query.allRecipes, query.maxResults)
          forth == {k \in 1..Len(scored) : scored[k].recipe.id = B.id}
          home == {k \in 1..Len(back) : back[k].recipe.id = query.recipe.id}
      IN  (B.id # query.recipe.id /\ \E a \in 1..Len(query.allRecipes) :
                                       query.allRecipes[a] = query.recipe) =>
            /\ forth # {} <=> home # {}
            /\ \A k \in forth, l \in home : scored[k].similarity = back[l].similarity

----------------------------------------------------------------------------
(* The app: AppWithAuth, FamilyRecipes and the Firestore collection *)

\* The id of a recipe: none, one of the sample data, or one Firestore generated
NoId == [src |-> "none", n |-> 0]
Local(k) == [src |-> "local", n |-> k]
Doc(n) == [src |-> "doc", n |-> n]

NoUid == "none"                \* a record without the field createdBy
Users == {[uid |-> "ann"]}     \* the accounts of Firebase Authentication

SAMPLE_RECIPES ==
  << [id |-> Local(1),
      title |->   \* Grandma's Chocolate Chip Cookies
        <<
          "G","r","a","n","d","m","a","'","s"," ","C","h","o","c","o","l","a","t","e"," ",
          "C","h","i","p"," ","C","o","o","k","i","e","s"
        >>,
      category |-> Category.Dessert,
      ingredients |->
        <<
          <<"f","l","o","u","r">>, <<"b","u","t","t","e","r">>,
          <<"c","h","o","c","o","l","a","t","e"," ","c","h","i","p","s">>,
          <<"s","u","g","a","r">>, <<"e","g","g","s">>, <<"v","a","n","i","l","l","a">>
        >>,
      createdBy |-> NoUid],
     [id |-> Local(2),
      title |->   \* Sunday Morning Pancakes
        <<
          "S","u","n","d","a","y"," ","M","o","r","n","i","n","g"," ","P","a","n","c","a",
          "k","e","s"
        >>,
      category |-> Category.Breakfast,
      ingredients |->
        <<
          <<"f","l","o","u","r">>, <<"m","i","l","k">>, <<"e","g","g","s">>,
          <<"b","u","t","t","e","r">>,
          <<"b","a","k","i","n","g"," ","p","o","w","d","e","r">>,
          <<"m","a","p","l","e"," ","s","y","r","u","p">>
        >>,
      createdBy |-> NoUid],
     [id |-> Local(3),
      title |->   \* Cozy Tomato Soup
        <<
          "C","o","z","y"," ","T","o","m","a","t","o"," ","S","o","u","p"
        >>,
      category |-> Category.Soup,
      ingredients |->
        <<
          <<"t","o","m","a","t","o","e","s">>, <<"o","n","i","o","n">>,
          <<"g","a","r","l","i","c">>, <<"b","a","s","i","l">>, <<"c","r","e","a","m">>,
          <<"b","u","t","t","e","r">>
        >>,
      createdBy |-> NoUid] >>

\* the state newRecipe of an untouched form
EmptyForm == [title |-> <<>>, category |-> Category.Main, ingredients |-> <<>>]

\* the record handleAddRecipe and handleUpdateRecipe build from the form
formRecipe(form, uid) ==
  [id |-> NoId,
   title |-> form.title,
   category |-> form.category,
   ingredients |-> SelectSeq(trimEach(splitChars(form.ingredients, {NL})), nonEmpty),
   createdBy |-> uid]

\* { ...recipe, createdAt, createdBy: user.uid }; delete recipeData.id
recipeData(recipe, uid) ==
  [id |-> NoId, title |-> recipe.title, category |-> recipe.category,
   ingredients |-> recipe.ingredients, createdBy |-> uid]

\* { id: doc.id, ...doc.data() }: a field id of the data overrides the document id
fromDoc(n, fields) == IF fields.id # NoId THEN fields ELSE [fields EXCEPT !.id = Doc(n)]

\* { ...recipeData, id: docRef.id }
withId(fields, n) == [fields EXCEPT !.id = Doc(n)]

\* the order of Firestore on strings, for the characters of the titles
Collation == <<" ", "'", "0", "1", "2", "3", "4", "5", "6", "7", "8", "9">>
               \o AsciiUpperSeq \o AsciiLowerSeq
titleBefore(a, b) ==
  LET codeOf(c) == CHOOSE i \in 1..Len(Collation) : Collation[i] = c
  IN  \E p \in 1..Len(b) :
        /\ \A q \in 1..(p - 1) : q <= Len(a) /\ a[q] = b[q]
        /\ p > Len(a) \/ (p - 1 < Len(a) /\ codeOf(a[p]) < codeOf(b[p]))

\* snapshot.docs of db.collection('recipes').orderBy('title').get()
orderByTitle(docs) ==
  LET ids == DOMAIN docs
      rank(n) == Cardinality({m \in ids : \/ titleBefore(docs[m].title, docs[n].title)
                                          \/ (docs[m].title = docs[n].title /\ m < n)})
  IN  [k \in 1..Cardinality(ids) |-> CHOOSE n \in ids : rank(n) = k - 1]

\* snapshot.docs.map(doc => ({ id: doc.id, ...doc.data() }))
loadedRecipes(docs) ==
  [k \in 1..Len(orderByTitle(docs)) |-> fromDoc(orderByTitle(docs)[k], docs[orderByTitle(docs)[k]])]

MaxDocs == 5      \* document ids Firestore generates
MaxTasks == 2     \* asynchronous calls in flight at once
MaxEvents == 5    \* clicks, inputs and sign-ins of the user

\* the user does something
userEvent == events < MaxEvents /\ events' = events + 1

\* db.collection('recipes').add(fields): the write is issued
addDoc(fields) ==
  /\ lastDocId < MaxDocs
  /\ lastDocId' = lastDocId + 1
  /\ store' = [n \in DOMAIN store \cup {lastDocId + 1} |->
                 IF n = lastDocId + 1 THEN fields ELSE store[n]]

\* the sequence without its i-th element
without(seq, i) == SubSeq(seq, 1, i - 1) \o SubSeq(seq, i + 1, Len(seq))

\* onRequestAuth(): setShowAuthModal(true)
onRequestAuth == showAuthModal' = TRUE

\* no modal covers the page
pageVisible ==
  /\ ~showAuthModal /\ ~isAddingNew /\ ~isEditing /\ ~isManaging /\ ~showPasteModal
  /\ selectedRecipe = Null

\* what the user types into the form and the paste box
TitlesTyped == {<<"T","e","a">>}
IngredientsTyped == {<<"t","e","a","\n"," ","w","a","t","e","r"," ","\n">>}
CategoriesSelected == {Category.Drink}
PasteTexts == {Section.Tea, Section.PlainToast}

\* the files the user chooses: the content read as text, and what JSON.parse makes of it
Files ==
  { [content |-> <<"{","o","o","p","s">>, payload |-> SyntaxError]
  , [content |-> <<" ","[","]">>, payload |-> Arr(<<>>)]
  , [content |->
      <<"[","{","\"","t","i","t","l","e","\"",":","\"","D","i","p","\"",",","\"","i","n","g",
        "r","e","d","i","e","n","t","s","\"",":","\"","s","o","y",","," ","l","i","m","e"," ",
        ",","s","a","l","t","\"","}","]">>, payload |-> Arr(<<JsonItem.listed>>)]
  , [content |-> Section.Tea, payload |-> SyntaxError]
  }
NoFile == [content |-> <<>>, payload |-> Undefined]

\* formatConverters.parseText, in one call; the ids are deleted by the callers
parseText(fileText) ==
  LET parsed == [i \in 1..Len(splitBlocks(fileText)) |->
                   parseRecipeBlock(splitBlocks(fileText)[i], 0)]
  IN  SelectSeq(parsed, LAMBDA r : r # Null)

\* a faulty detection: trimmed.startsWith('[') only
looksLikeJSONArrayOnly(fileText) == trim(fileText) # <<>> /\ trim(fileText)[1] = "["

\* trimmed.startsWith('[') || trimmed.startsWith('{')
looksLikeJSON(fileText) == trim(fileText) # <<>> /\ trim(fileText)[1] \in {"[", "{"}

\* an asynchronous call that waits for the store or for the file reader: its position (op) and
\* what its closure holds (base: recipes, uid: user.uid, todo: the records still to add,
\* acc: newRecipes, file: the file read, target: the id of the document written)
Task(op, base, todo, acc, uid, file, target) ==
  [op |-> op, base |-> base, todo |-> todo, acc |-> acc, uid |-> uid, file |-> file,
   target |-> target]
Loading == Task("load", <<>>, <<>>, <<>>, NoUid, NoFile, NoId)
Seeding(todo) == Task("seed", <<>>, todo, <<>>, NoUid, NoFile, NoId)

\* a recipe somebody added in an earlier session
EarlierDoc ==
  [id |-> NoId, title |-> <<"P","i","e">>, category |-> Category.Dessert,
   ingredients |-> <<<<"f","l","o","u","r">>, <<"a","p","p","l","e","s">>>>,
   createdBy |-> "ann"]

\* the page has loaded: the auth state is known, FamilyRecipes is mounted and loadRecipes
\* waits for the collection
AppInit ==
  /\ ImporterOff
  /\ SimilarOff
  /\ ViewOff
  /\ user \in {Null} \cup Users
  /\ showAuthModal = FALSE
  /\ recipesState = <<>>
  /\ \/ store = <<>> /\ lastDocId = 0
     \/ store = <<EarlierDoc>> /\ lastDocId = 1
  /\ selectedRecipe = Null
  /\ isAddingNew = FALSE
  /\ isEditing = FALSE
  /\ editingRecipeId = Null
  /\ isManaging = FALSE
  /\ newRecipe = EmptyForm
  /\ importStatus = Null
  /\ showPasteModal = FALSE
  /\ pasteText = <<>>
  /\ tasks = <<Loading>>
  /\ events = 0

\* AuthScreen reports success: handleAuthSuccess
SignIn ==
  /\ userEvent
  /\ showAuthModal
  /\ user = Null
  /\ user' \in Users
  /\ showAuthModal' = FALSE
  /\ UNCHANGED <<recipesState, store, lastDocId, selectedRecipe, isAddingNew, isEditing,
                 editingRecipeId, isManaging, newRecipe, importStatus, showPasteModal,
                 pasteText, tasks, importerVars, similarVars, viewVars>>

\* the user signs out, here or in another tab: onAuthStateChanged, setUser(null)
SignOut ==
  /\ userEvent
  /\ user # Null
  /\ user' = Null
  /\ UNCHANGED <<showAuthModal, recipesState, store, lastDocId, selectedRecipe, isAddingNew,
                 isEditing, editingRecipeId, isManaging, newRecipe, importStatus,
                 showPasteModal, pasteText, tasks, importerVars, similarVars, viewVars>>

\* loadRecipes after its await, and the writes of the sample data one by one
LoadRecipes ==
  /\ \E i \in 1..Len(tasks) :
       \/ /\ tasks[i].op = "load"
          /\ DOMAIN store # {}
          /\ recipesState' = loadedRecipes(store)
          /\ tasks' = without(tasks, i)
          /\ UNCHANGED <<store, lastDocId>>
       \/ /\ tasks[i].op = "load"
          /\ DOMAIN store = {}
          /\ recipesState' = SAMPLE_RECIPES
          /\ addDoc(Head(SAMPLE_RECIPES))
          /\ tasks' = [tasks EXCEPT ![i] = Seeding(Tail(SAMPLE_RECIPES))]
       \/ /\ tasks[i].op = "seed"
          /\ IF tasks[i].todo = <<>>
               THEN tasks' = without(tasks, i) /\ UNCHANGED <<store, lastDocId>>
               ELSE /\ addDoc(Head(tasks[i].todo))
                    /\ tasks' = [tasks EXCEPT ![i] = Seeding(Tail(tasks[i].todo))]
          /\ UNCHANGED recipesState
  /\ UNCHANGED <<user, showAuthModal, selectedRecipe, isAddingNew, isEditing, editingRecipeId,
                 isManaging, newRecipe, importStatus, showPasteModal, pasteText,
                 importerVars, similarVars, events, viewVars>>

\* clicks and keystrokes that call no handler of the store
UiEvent ==
  /\ userEvent
  /\ \/ /\ showAuthModal                       \* the login modal is closed
        /\ showAuthModal' = FALSE
        /\ UNCHANGED <<selectedRecipe, isAddingNew, isEditing, isManaging, newRecipe,
                       showPasteModal, pasteText>>
     \/ /\ pageVisible                         \* the manage button
        /\ IF user = Null THEN onRequestAuth /\ UNCHANGED isManaging
                          ELSE isManaging' = TRUE /\ UNCHANGED showAuthModal
        /\ UNCHANGED <<selectedRecipe, isAddingNew, isEditing, newRecipe, showPasteModal,
                       pasteText>>
     \/ /\ pageVisible                         \* the add button
        /\ IF user = Null THEN onRequestAuth /\ UNCHANGED isAddingNew
                          ELSE isAddingNew' = TRUE /\ UNCHANGED showAuthModal
        /\ UNCHANGED <<selectedRecipe, isEditing, isManaging, newRecipe, showPasteModal,
                       pasteText>>
     \/ /\ pageVisible                         \* a recipe card
        /\ \E i \in 1..Len(recipesState) : selectedRecipe' = recipesState[i]
        /\ UNCHANGED <<showAuthModal, isAddingNew, isEditing, isManaging, newRecipe,
                       showPasteModal, pasteText>>
     \/ /\ ~showAuthModal /\ selectedRecipe # Null    \* the detail view is closed
        /\ selectedRecipe' = Null
        /\ UNCHANGED <<showAuthModal, isAddingNew, isEditing, isManaging, newRecipe,
                       showPasteModal, pasteText>>
     \/ /\ ~showAuthModal /\ (isAddingNew \/ isEditing)    \* the form is closed
        /\ isAddingNew' = FALSE
        /\ isEditing' = FALSE
        /\ UNCHANGED <<showAuthModal, selectedRecipe, isManaging, newRecipe, showPasteModal,
                       pasteText>>
     \/ /\ ~showAuthModal /\ (isAddingNew \/ isEditing)    \* the form is filled in
        /\ \/ \E t \in TitlesTyped : newRecipe' = [newRecipe EXCEPT !.title = t]
           \/ \E c \in CategoriesSelected : newRecipe' = [newRecipe EXCEPT !.category = c]
           \/ \E s \in IngredientsTyped : newRecipe' = [newRecipe EXCEPT !.ingredients = s]
        /\ UNCHANGED <<showAuthModal, selectedRecipe, isAddingNew, isEditing, isManaging,
                       showPasteModal, pasteText>>
     \/ /\ ~showAuthModal /\ isManaging               \* the manage view is closed
        /\ isManaging' = FALSE
        /\ UNCHANGED <<showAuthModal, selectedRecipe, isAddingNew, isEditing, newRecipe,
                       showPasteModal, pasteText>>
     \/ /\ ~showAuthModal /\ isManaging               \* the button Paste Text
        /\ showPasteModal' = TRUE
        /\ isManaging' = FALSE
        /\ UNCHANGED <<showAuthModal, selectedRecipe, isAddingNew, isEditing, newRecipe,
                       pasteText>>
     \/ /\ ~showAuthModal /\ showPasteModal           \* the paste view is closed
        /\ showPasteModal' = FALSE
        /\ UNCHANGED <<showAuthModal, selectedRecipe, isAddingNew, isEditing, isManaging,
                       newRecipe, pasteText>>
     \/ /\ ~showAuthModal /\ showPasteModal           \* a text is pasted
        /\ pasteText' \in PasteTexts
        /\ UNCHANGED <<showAuthModal, selectedRecipe, isAddingNew, isEditing, isManaging,
                       newRecipe, showPasteModal>>
  /\ UNCHANGED <<user, recipesState, store, lastDocId, editingRecipeId, importStatus, tasks,
                 importerVars, similarVars, viewVars>>

\* setTimeout(() => setImportStatus(null), 3000)
ClearStatus ==
  /\ importStatus # Null
  /\ importStatus' = Null
  /\ UNCHANGED <<user, showAuthModal, recipesState, store, lastDocId, selectedRecipe,
                 isAddingNew, isEditing, editingRecipeId, isManaging, newRecipe,
                 showPasteModal, pasteText, tasks, importerVars, similarVars, events, viewVars>>

\* a faulty guard: the form is reset as well
requestAuthAndReset ==
  /\ onRequestAuth
  /\ newRecipe' = EmptyForm
  /\ UNCHANGED <<user, recipesState, store, lastDocId, selectedRecipe, isAddingNew, isEditing,
                 editingRecipeId, isManaging, importStatus, showPasteModal, pasteText, tasks>>

\* if (!user) { onRequestAuth(); return; }
requestAuthAndReturn ==
  /\ onRequestAuth
  /\ UNCHANGED <<user, recipesState, store, lastDocId, selectedRecipe, isAddingNew, isEditing,
                 editingRecipeId, isManaging, newRecipe, importStatus, showPasteModal,
                 pasteText, tasks>>

\* a handler returns without an effect (an early return, a declined confirm, a caught error)
returnsOnly == UNCHANGED appVars

\* a new asynchronous call waits
spawn(task) == Len(tasks) < MaxTasks /\ tasks' = Append(tasks, task)

handleAddRecipe ==
  IF user = Null THEN requestAuthAndReturn
  ELSE IF trim(newRecipe.title) = <<>> THEN returnsOnly
  ELSE /\ addDoc(formRecipe(newRecipe, user.uid))
       /\ spawn(Task("added", recipesState, <<>>,
                     <<withId(formRecipe(newRecipe, user.uid), lastDocId + 1)>>,
                     user.uid, NoFile, NoId))
       /\ UNCHANGED <<user, showAuthModal, recipesState, selectedRecipe, isAddingNew,
                      isEditing, editingRecipeId, isManaging, newRecipe, importStatus,
                      showPasteModal, pasteText>>

\* handleAddRecipe after its await
AddRecipeDone ==
  /\ \E i \in 1..Len(tasks) :
       /\ tasks[i].op = "added"
       /\ recipesState' = tasks[i].base \o tasks[i].acc
       /\ tasks' = without(tasks, i)
  /\ newRecipe' = EmptyForm
  /\ isAddingNew' = FALSE
  /\ UNCHANGED <<user, showAuthModal, store, lastDocId, selectedRecipe, isEditing,
                 editingRecipeId, isManaging, importStatus, showPasteModal, pasteText,
                 importerVars, similarVars, events, viewVars>>

\* the store without the documents of a set
deleteDocs(ns) == store' = [n \in DOMAIN store \ ns |-> store[n]]

handleDeleteRecipe(id, confirmed) ==
  IF user = Null THEN requestAuthAndReturn
  ELSE IF ~confirmed THEN returnsOnly
  ELSE IF id.src # "doc" THEN returnsOnly       \* doc(id) rejects an id that is no string
  ELSE /\ deleteDocs({id.n})
       /\ spawn(Task("deleted", recipesState, <<>>, <<>>, user.uid, NoFile, id))
       /\ UNCHANGED <<user, showAuthModal, recipesState, lastDocId, selectedRecipe,
                      isAddingNew, isEditing, editingRecipeId, isManaging, newRecipe,
                      importStatus, showPasteModal, pasteText>>

\* recipes.filter(r => r.id !== id)
otherThan(list, id) == SelectSeq(list, LAMBDA r : r.id # id)

\* handleDeleteRecipe after its await
DeleteRecipeDone ==
  /\ \E i \in 1..Len(tasks) :
       /\ tasks[i].op = "deleted"
       /\ recipesState' = otherThan(tasks[i].base, tasks[i].target)
       /\ tasks' = without(tasks, i)
  /\ selectedRecipe' = Null
  /\ UNCHANGED <<user, showAuthModal, store, lastDocId, isAddingNew, isEditing,
                 editingRecipeId, isManaging, newRecipe, importStatus, showPasteModal,
                 pasteText, importerVars, similarVars, events, viewVars>>

handleEditRecipe ==
  IF user = Null THEN requestAuthAndReturn
  ELSE /\ newRecipe' = [title |-> selectedRecipe.title,
                        category |-> selectedRecipe.category,
                        ingredients |-> join(selectedRecipe.ingredients, <<NL>>)]
       /\ editingRecipeId' = selectedRecipe.id
       /\ isEditing' = TRUE
       /\ selectedRecipe' = Null
       /\ UNCHANGED <<user, showAuthModal, recipesState, store, lastDocId, isAddingNew,
                      isManaging, importStatus, showPasteModal, pasteText, tasks>>

\* { ...r, ...updatedRecipe }
merged(r, updatedRecipe) ==
  [r EXCEPT !.title = updatedRecipe.title, !.category = updatedRecipe.category,
            !.ingredients = updatedRecipe.ingredients]

handleUpdateRecipe ==
  IF user = Null THEN requestAuthAndReturn
  ELSE IF trim(newRecipe.title) = <<>> THEN returnsOnly
  ELSE IF editingRecipeId = Null \/ editingRecipeId.src # "doc" THEN returnsOnly
  ELSE IF editingRecipeId.n \notin DOMAIN store THEN returnsOnly   \* update: no such document
  ELSE /\ store' = [store EXCEPT ![editingRecipeId.n] =
                      merged(@, formRecipe(newRecipe, user.uid))]
       /\ spawn(Task("updated", recipesState, <<>>, <<formRecipe(newRecipe, user.uid)>>,
                     user.uid, NoFile, editingRecipeId))
       /\ UNCHANGED <<user, showAuthModal, recipesState, lastDocId, selectedRecipe,
                      isAddingNew, isEditing, editingRecipeId, isManaging, newRecipe,
                      importStatus, showPasteModal, pasteText>>

\* handleUpdateRecipe after its await
UpdateRecipeDone ==
  /\ \E i \in 1..Len(tasks) :
       /\ tasks[i].op = "updated"
       /\ recipesState' = [k \in 1..Len(tasks[i].base) |->
                             IF tasks[i].base[k].id = tasks[i].target
                               THEN merged(tasks[i].base[k], Head(tasks[i].acc))
                               ELSE tasks[i].base[k]]
       /\ tasks' = without(tasks, i)
  /\ newRecipe' = EmptyForm
  /\ isEditing' = FALSE
  /\ editingRecipeId' = Null
  /\ UNCHANGED <<user, showAuthModal, store, lastDocId, selectedRecipe, isAddingNew,
                 isManaging, importStatus, showPasteModal, pasteText,
                 importerVars, similarVars, events, viewVars>>

\* the import status
Imported(count) == [success |-> TRUE, count |-> count, error |-> "none"]
Failed(error) == [success |-> FALSE, count |-> 0, error |-> error]

\* the messages of the import status
CouldNotParseFile == "Could not parse file"
NoRecipesFoundInFile == "No recipes found in file"
CouldNotParseText == "Could not parse text"
NoRecipesFoundInText == "No recipes found in text"

\* the records of an import, as the loop writes them
recipeDataEach(imported, uid) == [k \in 1..Len(imported) |-> recipeData(imported[k], uid)]

handleImport(file) ==
  IF user = Null THEN requestAuthAndReturn
  ELSE /\ spawn(Task("read", recipesState, <<>>, <<>>, user.uid, file, NoId))
       /\ UNCHANGED <<user, showAuthModal, recipesState, store, lastDocId, selectedRecipe,
                      isAddingNew, isEditing, editingRecipeId, isManaging, newRecipe,
                      importStatus, showPasteModal, pasteText>>

\* the first write of the loop, or the status of an import that found nothing
startAdding(i, op, imported, base, uid, nothingFound) ==
  IF imported = <<>>
    THEN /\ importStatus' = Failed(nothingFound)
         /\ tasks' = IF i > Len(tasks) THEN tasks ELSE without(tasks, i)
         /\ UNCHANGED <<store, lastDocId>>
    ELSE /\ addDoc(recipeData(Head(imported), uid))
         /\ LET waiting == Task(op, base, recipeDataEach(Tail(imported), uid),
                                <<withId(recipeData(Head(imported), uid), lastDocId + 1)>>,
                                uid, NoFile, NoId)
            IN  IF i > Len(tasks) THEN spawn(waiting)
                ELSE tasks' = [tasks EXCEPT ![i] = waiting]
         /\ UNCHANGED importStatus

\* reader.onload for the file of the i-th call
onload(i) ==
  /\ tasks[i].op = "read"
  /\ IF looksLikeJSON(tasks[i].file.content)
       THEN IF parseJSONThrows(tasks[i].file.payload)
              THEN /\ importStatus' = Failed(CouldNotParseFile)
                   /\ tasks' = without(tasks, i)
                   /\ UNCHANGED <<store, lastDocId>>
              ELSE startAdding(i, "addingFile",
                               parseJSON(tasks[i].file.payload,
                                         [k \in 1..Len(asArray(tasks[i].file.payload)) |-> 0]),
                               tasks[i].base, tasks[i].uid, NoRecipesFoundInFile)
       ELSE startAdding(i, "addingFile", parseText(tasks[i].file.content),
                        tasks[i].base, tasks[i].uid, NoRecipesFoundInFile)

\* the file reader has read a file
Onload ==
  /\ \E i \in 1..Len(tasks) : onload(i)
  /\ UNCHANGED <<user, showAuthModal, recipesState, selectedRecipe, isAddingNew, isEditing,
                 editingRecipeId, isManaging, newRecipe, showPasteModal, pasteText,
                 importerVars, similarVars, events, viewVars>>

handlePasteImport ==
  IF user = Null THEN requestAuthAndReturn
  ELSE /\ startAdding(Len(tasks) + 1, "addingPaste", parseText(pasteText), recipesState,
                      user.uid, NoRecipesFoundInText)
       /\ UNCHANGED <<user, showAuthModal, recipesState, selectedRecipe, isAddingNew,
                      isEditing, editingRecipeId, isManaging, newRecipe, showPasteModal,
                      pasteText>>

\* the loops of handleImport, handlePasteImport and handleResetToSamples after an await: the
\* next write, or after the last one the new list
AddingNext ==
  /\ \E i \in 1..Len(tasks) :
       /\ tasks[i].op \in {"addingFile", "addingPaste", "addingReset"}
       /\ IF tasks[i].todo # <<>>
            THEN /\ addDoc(Head(tasks[i].todo))
                 /\ tasks' = [tasks EXCEPT ![i].todo = Tail(@),
                                           ![i].acc = Append(@, withId(Head(tasks[i].todo),
                                                                       lastDocId + 1))]
                 /\ UNCHANGED <<recipesState, importStatus, showPasteModal, pasteText,
                                isManaging>>
            ELSE /\ tasks' = without(tasks, i)
                 /\ UNCHANGED <<store, lastDocId>>
                 /\ recipesState' = tasks[i].base \o tasks[i].acc
                 /\ IF tasks[i].op = "addingReset"
                      THEN isManaging' = FALSE /\ UNCHANGED importStatus
                      ELSE importStatus' = Imported(Len(tasks[i].acc)) /\ UNCHANGED isManaging
                 /\ IF tasks[i].op = "addingPaste"
                      THEN showPasteModal' = FALSE /\ pasteText' = <<>>
                      ELSE UNCHANGED <<showPasteModal, pasteText>>
  /\ UNCHANGED <<user, showAuthModal, selectedRecipe, isAddingNew, isEditing, editingRecipeId,
                 newRecipe, importerVars, similarVars, events, viewVars>>

handleClearAll(confirmed) ==
  IF user = Null THEN requestAuthAndReturn
  ELSE IF ~confirmed THEN returnsOnly
  ELSE /\ spawn(Task("clearGet", recipesState, <<>>, <<>>, user.uid, NoFile, NoId))
       /\ UNCHANGED <<user, showAuthModal, recipesState, store, lastDocId, selectedRecipe,
                      isAddingNew, isEditing, editingRecipeId, isManaging, newRecipe,
                      importStatus, showPasteModal, pasteText>>

handleResetToSamples(confirmed) ==
  IF user = Null THEN requestAuthAndReturn
  ELSE IF ~confirmed THEN returnsOnly
  ELSE /\ spawn(Task("resetGet", recipesState, <<>>, <<>>, user.uid, NoFile, NoId))
       /\ UNCHANGED <<user, showAuthModal, recipesState, store, lastDocId, selectedRecipe,
                      isAddingNew, isEditing, editingRecipeId, isManaging, newRecipe,
                      importStatus, showPasteModal, pasteText>>

\* handleClearAll and handleResetToSamples after get(): the batch deletes the documents of the
\* snapshot
BatchCommit ==
  /\ \E i \in 1..Len(tasks) :
       /\ tasks[i].op \in {"clearGet", "resetGet"}
       /\ deleteDocs(DOMAIN store)
       /\ tasks' = [tasks EXCEPT ![i].op = IF @ = "clearGet" THEN "clearDone" ELSE "resetDone"]
  /\ UNCHANGED <<user, showAuthModal, recipesState, lastDocId, selectedRecipe, isAddingNew,
                 isEditing, editingRecipeId, isManaging, newRecipe, importStatus,
                 showPasteModal, pasteText, importerVars, similarVars, events, viewVars>>

\* handleClearAll after batch.commit()
ClearAllDone ==
  /\ \E i \in 1..Len(tasks) :
       /\ tasks[i].op = "clearDone"
       /\ tasks' = without(tasks, i)
  /\ recipesState' = <<>>
  /\ isManaging' = FALSE
  /\ UNCHANGED <<user, showAuthModal, store, lastDocId, selectedRecipe, isAddingNew,
                 isEditing, editingRecipeId, newRecipe, importStatus, showPasteModal,
                 pasteText, importerVars, similarVars, events, viewVars>>

\* handleResetToSamples after batch.commit(): the first sample is written
ResetCommitted ==
  /\ \E i \in 1..Len(tasks) :
       /\ tasks[i].op = "resetDone"
       /\ addDoc(recipeData(Head(SAMPLE_RECIPES), tasks[i].uid))
       /\ tasks' = [tasks EXCEPT ![i] =
                      Task("addingReset", <<>>,
                           recipeDataEach(Tail(SAMPLE_RECIPES), tasks[i].uid),
                           <<withId(recipeData(Head(SAMPLE_RECIPES), tasks[i].uid),
                                    lastDocId + 1)>>,
                           tasks[i].uid, NoFile, NoId)]
  /\ UNCHANGED <<user, showAuthModal, recipesState, selectedRecipe, isAddingNew, isEditing,
                 editingRecipeId, isManaging, newRecipe, importStatus, showPasteModal,
                 pasteText, importerVars, similarVars, events, viewVars>>

\* the buttons and the file input that call the handlers
ClickSave ==
  /\ userEvent
  /\ ~showAuthModal /\ (isAddingNew \/ isEditing) /\ ~isEditing
  /\ handleAddRecipe
  /\ UNCHANGED <<importerVars, similarVars, viewVars>>

ClickUpdate ==
  /\ userEvent
  /\ ~showAuthModal /\ (isAddingNew \/ isEditing) /\ isEditing
  /\ handleUpdateRecipe
  /\ UNCHANGED <<importerVars, similarVars, viewVars>>

ClickEdit ==
  /\ userEvent
  /\ ~showAuthModal /\ selectedRecipe # Null /\ user # Null
  /\ handleEditRecipe
  /\ UNCHANGED <<importerVars, similarVars, viewVars>>

ClickRemove ==
  /\ userEvent
  /\ ~showAuthModal /\ selectedRecipe # Null /\ user # Null
  /\ \E confirmed \in BOOLEAN : handleDeleteRecipe(selectedRecipe.id, confirmed)
  /\ UNCHANGED <<importerVars, similarVars, viewVars>>

ChooseFile ==
  /\ userEvent
  /\ ~showAuthModal /\ isManaging
  /\ \E file \in Files : handleImport(file)
  /\ UNCHANGED <<importerVars, similarVars, viewVars>>

ClickImportText ==
  /\ userEvent
  /\ ~showAuthModal /\ showPasteModal /\ trim(pasteText) # <<>>
  /\ handlePasteImport
  /\ UNCHANGED <<importerVars, similarVars, viewVars>>

ClickClearAll ==
  /\ userEvent
  /\ ~showAuthModal /\ isManaging
  /\ \E confirmed \in BOOLEAN : handleClearAll(confirmed)
  /\ UNCHANGED <<importerVars, similarVars, viewVars>>

ClickReset ==
  /\ userEvent
  /\ ~showAuthModal /\ isManaging
  /\ \E confirmed \in BOOLEAN : handleResetToSamples(confirmed)
  /\ UNCHANGED <<importerVars, similarVars, viewVars>>

AppNext ==
  \/ SignIn \/ SignOut \/ UiEvent \/ ClearStatus \/ LoadRecipes
  \/ ClickSave \/ AddRecipeDone
  \/ ClickRemove \/ DeleteRecipeDone
  \/ ClickEdit
  \/ ClickUpdate \/ UpdateRecipeDone
  \/ ChooseFile \/ Onload
  \/ ClickImportText
  \/ AddingNext
  \/ ClickClearAll \/ ClickReset \/ BatchCommit \/ ClearAllDone \/ ResetCommitted

AppSpec == AppInit /\ [][AppNext]_vars

----------------------------------------------------------------------------
(* Properties of the app *)

\* JSON.parse accepts the content of the file
validJSON(file) == file.payload.t # "invalid"

\* the content starts, after trimming, with '{' or '['
startsLikeJSON(file) ==
  \E k \in 1..Len(file.content) :
    /\ file.content[k] \in {"{", "["}
    /\ \A j \in 1..(k - 1) : file.content[j] \in WS

\* the file holds no recipe: an empty JSON array, or a text in which parseText finds none
holdsNothing(file) ==
  IF startsLikeJSON(file) THEN file.payload = Arr(<<>>) ELSE parseText(file.content) = <<>>

\* C12: when the file reader delivers a file whose trimmed content starts with '{' or '[' and
\* is not valid JSON, the import status becomes the failure 'Could not parse file'; when the
\* file holds no recipe, it becomes 'No recipes found in file', a different message; in
\* both cases the list in memory and the store stay as they were.
C12_InvalidJsonIsHardFailure ==
  [][\A i \in 1..Len(tasks) :
       onload(i) =>
         /\ (startsLikeJSON(tasks[i].file) /\ ~validJSON(tasks[i].file)) =>
               /\ importStatus' = Failed(CouldNotParseFile)
               /\ UNCHANGED <<recipesState, store>>
         /\ (~(startsLikeJSON(tasks[i].file) /\ ~validJSON(tasks[i].file))
               /\ holdsNothing(tasks[i].file)) =>
               /\ importStatus' = Failed(NoRecipesFoundInFile)
               /\ importStatus' # Failed(CouldNotParseFile)
               /\ UNCHANGED <<recipesState, store>>]_vars

\* an import of a file has ended with 'Could not parse file', with recipes in memory and in
\* the store
C12_Witness ==
  /\ importStatus = Failed(CouldNotParseFile)
  /\ recipesState # <<>>
  /\ DOMAIN store # {}

\* C17: no document is added to, changed in or deleted from the store in a step taken while
\* no user is signed in.
C17_OnlyAuthenticatedWrites ==
  [][(store' # store \/ lastDocId' # lastDocId) => user # Null]_vars

\* the calls of the eight handlers that modify recipes
HandlerCalled ==
  \/ ClickSave \/ ClickRemove \/ ClickEdit \/ ClickUpdate
  \/ ChooseFile \/ ClickImportText \/ ClickClearAll \/ ClickReset

\* C19: a call of handleAddRecipe, handleDeleteRecipe, handleEditRecipe, handleUpdateRecipe,
\* handleImport, handlePasteImport, handleClearAll or handleResetToSamples while no user is
\* signed in shows the login modal and changes neither the list in memory, nor the store, nor
\* the form (its fields, whether it is open, which recipe it edits). The buttons of
\* handleEditRecipe and handleDeleteRecipe are rendered for a signed-in user only.
C19_NoUserRequestsLogin ==
  [][(user = Null /\ HandlerCalled) =>
       /\ showAuthModal' = TRUE
       /\ UNCHANGED <<recipesState, store, lastDocId, newRecipe, isAddingNew, isEditing,
                      editingRecipeId, tasks>>]_vars

\* handleAddRecipe was called with a filled-in form while no user was signed in
C19_Witness ==
  /\ user = Null
  /\ showAuthModal
  /\ isAddingNew
  /\ newRecipe # EmptyForm

\* the recipe of the list is the document n of the store, under the id of the document
listedAs(recipe, n) ==
  /\ recipe.id = Doc(n)
  /\ n \in DOMAIN store
  /\ [recipe EXCEPT !.id = NoId] = [store[n] EXCEPT !.id = NoId]

\* the list in memory and the store hold the same recipes under the same ids
listMatchesStore ==
  /\ \A k \in 1..Len(recipesState) : \E n \in DOMAIN store : listedAs(recipesState[k], n)
  /\ \A n \in DOMAIN store : \E k \in 1..Len(recipesState) : listedAs(recipesState[k], n)

\* C26: after every completed operation of a session (no operation is still in progress)
\* the list in memory and the store hold the same recipes under the same ids, so that
\* every listed recipe has the id of an existing document of the store.
C26_ListMatchesStore == tasks = <<>> => listMatchesStore

\* the import of task i finishes in this step: its last write is done and it sets the list
importFinishes(i) ==
  /\ i \in 1..Len(tasks)
  /\ tasks[i].op \in {"addingFile", "addingPaste"}
  /\ tasks[i].todo = <<>>
  /\ tasks' = without(tasks, i)
  /\ AddingNext

\* the listed recipes whose documents were written after the first write of the import of
\* task i and not by it: recipes an operation added that completed while the import ran
addedMeanwhile(i) ==
  {r \in Range(recipesState) :
     /\ r.id.src = "doc"
     /\ r \notin Range(tasks[i].acc)
     /\ \E a \in Range(tasks[i].acc) : a.id.n < r.id.n}

\* the recipes listed when the import of task i began, now neither listed nor in the store:
\* recipes an operation deleted that completed while the import ran
deletedMeanwhile(i) ==
  {r \in Range(tasks[i].base) :
     /\ r \notin Range(recipesState)
     /\ r.id.src = "doc"
     /\ r.id.n \notin DOMAIN store}

\* C27: when an import finishes, the list in memory holds every imported recipe and every
\* recipe that an add completed while the writes of the import were in progress, and does
\* not hold a recipe that a delete completed in the meantime.
C27_NoLostUpdate ==
  [][\A i \in 1..MaxTasks :
       importFinishes(i) =>
         /\ \A r \in Range(tasks[i].acc) : r \in Range(recipesState')
         /\ \A r \in addedMeanwhile(i) : r \in Range(recipesState')
         /\ \A r \in deletedMeanwhile(i) : r \notin Range(recipesState')]_vars

\* the Add Recipe form is opened in this step
addFormOpens == ~isAddingNew /\ isAddingNew'

\* every field of the form is at its default or holds what the user may type
typedOrDefault(form) ==
  /\ form.title \in TitlesTyped \cup {EmptyForm.title}
  /\ form.category \in CategoriesSelected \cup {EmptyForm.category}
  /\ form.ingredients \in IngredientsTyped \cup {EmptyForm.ingredients}

\* Save of the Add Recipe form stores a recipe in this step
saveCreates == ClickSave /\ lastDocId' # lastDocId

\* C29: whenever the Add Recipe form is opened, all its fields are at their empty defaults,
\* and Save creates a recipe from nothing but defaults and what the user typed, whatever
\* came before (an edit form opened for a listed recipe and closed without saving included).
C29_AddFormStartsEmpty ==
  [][/\ addFormOpens => newRecipe' = EmptyForm
     /\ saveCreates => typedOrDefault(newRecipe)]_vars

(* The filters of FamilyRecipes: the search box, the category buttons and the tag filters *)

\* the tags of the sample recipes, in the order of SAMPLE_RECIPES
SAMPLE_TAGS ==
  << [type |-> <<<<"c","o","m","f","o","r","t">>, <<"q","u","i","c","k">>>>,
      region |-> <<<<"N","o","r","t","h"," ","A","m","e","r","i","c","a">>>>,
      meal |-> <<<<"s","n","a","c","k">>, <<"d","e","s","s","e","r","t">>>>,
      source |-> <<<<"f","a","m","i","l","y">>>>],
     [type |-> <<<<"c","o","m","f","o","r","t">>, <<"q","u","i","c","k">>, <<"f","e","w"," ","i","n","g","r","e","d","i","e","n","t","s">>>>,
      region |-> <<<<"N","o","r","t","h"," ","A","m","e","r","i","c","a">>>>,
      meal |-> <<<<"b","r","e","k","k","i","e">>>>,
      source |-> <<<<"f","a","m","i","l","y">>>>],
     [type |-> <<<<"c","o","m","f","o","r","t">>, <<"f","e","w"," ","i","n","g","r","e","d","i","e","n","t","s">>>>,
      region |-> <<<<"O","t","h","e","r">>>>,
      meal |-> <<<<"l","u","n","c","h","/","d","i","n","n","e","r">>>>,
      source |-> <<<<"f","a","m","i","l","y">>>>] >>

\* the sample recipes as listed, tags included
taggedSamples ==
  [k \in 1..Len(SAMPLE_RECIPES) |->
     [id |-> SAMPLE_RECIPES[k].id, title |-> SAMPLE_RECIPES[k].title,
      category |-> SAMPLE_RECIPES[k].category, ingredients |-> SAMPLE_RECIPES[k].ingredients,
      createdBy |-> SAMPLE_RECIPES[k].createdBy, tags |-> SAMPLE_TAGS[k]]]

\* what the user types into the search box
SearchTyped == {<<>>, <<"b","u","t","t","e","r">>, <<"S","O","U","P">>}

\* the category buttons the user presses
CategoriesPressed == {<<"A","l","l">>, Category.Dessert, Category.Soup}

\* the tag buttons the user presses, per tag category
TagsPressed ==
  [type |-> {<<"c","o","m","f","o","r","t">>, <<"q","u","i","c","k">>, <<"f","e","w"," ","i","n","g","r","e","d","i","e","n","t","s">>},
   region |-> {}, meal |-> {<<"d","e","s","s","e","r","t">>}, source |-> {}]

TagCategories == {"type", "region", "meal", "source"}

\* array.includes(x)
holds(array, x) == \E k \in 1..Len(array) : array[k] = x

matchesSearch(recipe) ==
  \/ searchQuery = <<>>
  \/ includes(toLowerCase(recipe.title), toLowerCase(searchQuery))
  \/ \E k \in 1..Len(recipe.ingredients) :
       includes(toLowerCase(recipe.ingredients[k]), toLowerCase(searchQuery))
  \/ includes(toLowerCase(recipe.category), toLowerCase(searchQuery))

matchesCategory(recipe) ==
  selectedCategory = <<"A","l","l">> \/ recipe.category = selectedCategory

matchesTags(recipe) ==
  \A category \in TagCategories :
    LET selectedTags == activeTagFilters[category]
        recipeTags == IF "tags" \in DOMAIN recipe THEN recipe.tags[category] ELSE <<>>
    IN  \/ Len(selectedTags) = 0
        \/ \E k \in 1..Len(selectedTags) : holds(recipeTags, selectedTags[k])

\* the recipes the page shows
filteredRecipes ==
  SelectSeq(recipesState,
            LAMBDA recipe : matchesSearch(recipe) /\ matchesCategory(recipe) /\ matchesTags(recipe))

\* the page shows the sample recipes, seeded into the empty store; no filter is set
\* the page is open, nobody is signed in, no view is open and no operation runs
PageIdle ==
  /\ user = Null
  /\ showAuthModal = FALSE
  /\ selectedRecipe = Null
  /\ isAddingNew = FALSE
  /\ isEditing = FALSE
  /\ editingRecipeId = Null
  /\ isManaging = FALSE
  /\ newRecipe = EmptyForm
  /\ importStatus = Null
  /\ showPasteModal = FALSE
  /\ pasteText = <<>>
  /\ tasks = <<>>
  /\ events = 0

FilterInit ==
  /\ ImporterOff
  /\ SimilarOff
  /\ PageIdle
  /\ WakeOff
  /\ FilterOff
  /\ recipesState = taggedSamples
  /\ store = taggedSamples
  /\ lastDocId = Len(taggedSamples)

\* what an action of the filters leaves alone
filterFrame == <<importerVars, similarVars, appVars, events, wakeVars>>

setSearchQuery ==
  /\ \E typed \in SearchTyped : searchQuery' = typed
  /\ UNCHANGED <<selectedCategory, activeTagFilters>>
  /\ UNCHANGED filterFrame

setSelectedCategory ==
  /\ \E cat \in CategoriesPressed : selectedCategory' = cat
  /\ UNCHANGED <<searchQuery, activeTagFilters>>
  /\ UNCHANGED filterFrame

toggleTagFilter(category, tag) ==
  LET current == activeTagFilters[category]
      updated == IF holds(current, tag)
                   THEN SelectSeq(current, LAMBDA t : t # tag)
                   ELSE Append(current, tag)
  IN  /\ activeTagFilters' = [activeTagFilters EXCEPT ![category] = updated]
      /\ UNCHANGED <<searchQuery, selectedCategory>>
      /\ UNCHANGED filterFrame

ToggleTagFilter ==
  \E category \in TagCategories : \E tag \in TagsPressed[category] :
    toggleTagFilter(category, tag)

hasActiveFilters == \E category \in TagCategories : Len(activeTagFilters[category]) > 0

\* the button is rendered only while a tag filter is set
clearAllFilters ==
  /\ hasActiveFilters
  /\ activeTagFilters' = EmptyTags
  /\ selectedCategory' = <<"A","l","l">>
  /\ searchQuery' = <<>>
  /\ UNCHANGED filterFrame

FilterNext ==
  \/ setSearchQuery
  \/ setSelectedCategory
  \/ ToggleTagFilter
  \/ clearAllFilters

FilterSpec == FilterInit /\ [][FilterNext]_vars

\* C25: a recipe is shown only if, for every tag category in which tags are selected, it
\* carries all the selected tags of that category; a category with no selected tag imposes
\* no constraint.
C25_ShownCarriesAllSelectedTags ==
  \A r \in 1..Len(filteredRecipes) : \A category \in TagCategories :
    \A k \in 1..Len(activeTagFilters[category]) :
      holds(filteredRecipes[r].tags[category], activeTagFilters[category][k])

(* useWakeLock and the effect of FamilyRecipes that keeps the screen on while a recipe is open *)

\* wakeLock.release() of releaseWakeLock, called with the wakeLock of a closure (0 for null):
\* the locks the page holds afterwards
afterRelease(locks, closureLock) == locks \ {closureLock}

\* the effect of FamilyRecipes runs after selectedRecipe changed to selected: the cleanup of
\* the effect installed before calls releaseWakeLock with the wakeLock of its render, then
\* the body calls requestWakeLock, or releaseWakeLock with the wakeLock of this render.
\* wakeLock.release() releases the lock and fires its 'release' event at once; the listener
\* and the lines after the await set the states wakeLock and isActive.
runEffect(selected) ==
  LET released == IF selected = Null THEN {effectLock, wakeLock} \ {0} ELSE {effectLock} \ {0}
  IN  /\ selectedRecipe' = selected
      /\ held' = held \ released
      /\ IF released = {} THEN UNCHANGED <<wakeLock, isActive>>
                          ELSE wakeLock' = 0 /\ isActive' = FALSE
      /\ lockRequests' = IF selected = Null THEN lockRequests ELSE lockRequests + 1
      /\ similarRecipes' = IF selected = Null THEN <<>>
                           ELSE findSimilarRecipes(selected, recipesState, Omitted)
      /\ effectLock' = wakeLock
      /\ UNCHANGED lastLockId

\* what an action of the wake lock leaves alone
wakeFrame ==
  <<user, showAuthModal, recipesState, store, lastDocId, isAddingNew, isEditing,
    editingRecipeId, isManaging, newRecipe, importStatus, showPasteModal, pasteText, tasks,
    importerVars, similarVars, filterVars>>

\* the page shows the sample recipes, seeded into the empty store; no recipe is open
WakeInit ==
  /\ ImporterOff
  /\ SimilarOff
  /\ PageIdle
  /\ FilterOff
  /\ WakeOff
  /\ recipesState = SAMPLE_RECIPES
  /\ store = SAMPLE_RECIPES
  /\ lastDocId = Len(SAMPLE_RECIPES)

\* a recipe card is clicked
OpenRecipe ==
  /\ userEvent
  /\ selectedRecipe = Null
  /\ \E i \in 1..Len(recipesState) : runEffect(recipesState[i])
  /\ UNCHANGED wakeFrame

\* a card of the similar recipes is clicked in the detail view
SwitchRecipe ==
  /\ userEvent
  /\ selectedRecipe # Null
  /\ \E k \in 1..Len(similarRecipes) : runEffect(similarRecipes[k].recipe)
  /\ UNCHANGED wakeFrame

\* the detail view is closed
CloseRecipe ==
  /\ userEvent
  /\ selectedRecipe # Null
  /\ runEffect(Null)
  /\ UNCHANGED wakeFrame

\* navigator.wakeLock.request('screen') resolves: requestWakeLock goes on after its await
RequestGranted ==
  /\ lockRequests > 0
  /\ lockRequests' = lockRequests - 1
  /\ lastLockId' = lastLockId + 1
  /\ held' = held \cup {lastLockId + 1}
  /\ wakeLock' = lastLockId + 1
  /\ isActive' = TRUE
  /\ UNCHANGED <<selectedRecipe, effectLock, similarRecipes, events>>
  /\ UNCHANGED wakeFrame

\* navigator.wakeLock.request('screen') rejects: the catch of requestWakeLock logs the error
RequestRejected ==
  /\ lockRequests > 0
  /\ lockRequests' = lockRequests - 1
  /\ UNCHANGED <<selectedRecipe, wakeLock, isActive, held, lastLockId, effectLock,
                 similarRecipes, events>>
  /\ UNCHANGED wakeFrame

WakeNext ==
  \/ OpenRecipe
  \/ SwitchRecipe
  \/ CloseRecipe
  \/ RequestGranted
  \/ RequestRejected

\* the browser settles every request
RequestSettles == RequestGranted \/ RequestRejected

WakeSpec == WakeInit /\ [][WakeNext]_vars /\ WF_vars(RequestSettles)

\* C28: at most one screen wake lock is held at any time, and once no recipe is selected
\* every lock that is held is released in the end (unless a recipe is opened again), for
\* every interleaving of opening a recipe, switching to a similar recipe, closing the detail
\* view and the settling of the wake lock requests.
C28_WakeLockDiscipline ==
  /\ [](Cardinality(held) <= 1)
  /\ (selectedRecipe = Null /\ held # {}) ~> (held = {} \/ selectedRecipe # Null)

====
